---- MODULE Spec2Model ----
(***************************************************************************)
(* Prize wheel server (app.py): the spin guard (WheelState), the durable   *)
(* JSON store (load_json_file / save_json_file under file_lock), the spin  *)
(* transaction (trigger_spin_flow and its deferred complete_spin) and the  *)
(* input adapters that call it, as one state machine.                      *)
(***************************************************************************)
EXTENDS Integers, Sequences, FiniteSets, TLC

\* ------------------------------------------------------------------ bounds
MaxSpins == 2
MaxFaults == 1
MaxPrizes == 3

\* ------------------------------------------------------- program constants
BUTTON_DEBOUNCE_TIME == 1
HistoryCap == 100
DefaultSpinDuration == 8
VOLUME_MIN == 0
VOLUME_MAX == 100
MODAL_DELAY_MIN == 500
MODAL_DELAY_MAX == 10000

\* ---------------------------------------------------------------- threads
\* A thread is a request handler (one per input adapter), the admin request
\* handler, or the background task started for spin number n.
Caller(c) == [k |-> "caller", c |-> c, n |-> 0]
Task(n) == [k |-> "task", c |-> "", n |-> n]
NoThread == [k |-> "none", c |-> "", n |-> 0]
Web == Caller("web")
Api == Caller("api")
Gpio == Caller("gpio")
Admin == Caller("admin")
\* One more thread, in the role a specification gives it; no specification
\* runs two of the roles.
\* A thread that calls the WheelState methods and the store functions directly.
Client == Caller("client")
\* The handler of a second admin request, made while the first is served.
Admin2 == Client
Admins == {Admin, Admin2}
\* The main thread: initialize_default_files, then socketio.run.
Main == Client
\* The handler of a connect or disconnect event or of GET /api/spin/status.
Observer == Client
Callers == {Web, Api, Gpio}
Tasks == {Task(n) : n \in 1..MaxSpins}
Threads == Callers \cup Admins \cup Tasks

\* ----------------------------------------------------------- JSON values
\* A JSON value stored under spin_duration_seconds: an integer, a string,
\* null, or no such key ("absent").
IntVal(i) == [ty |-> "int", v |-> i]
StrVal == [ty |-> "str", v |-> 0]
NullVal == [ty |-> "null", v |-> 0]
AbsentVal == [ty |-> "absent", v |-> 0]
\* The float i + 1/2, for i >= 0.
FloatVal(i) == [ty |-> "float", v |-> i]
\* Another string than StrVal.
OtherStr == [ty |-> "str", v |-> 1]
\* A string of blanks.
BlankStr == [ty |-> "str", v |-> 2]
\* The float NaN, which json.loads reads from the literal NaN.
NaNVal == [ty |-> "nan", v |-> 0]

\* A prize dict.  empty = TRUE is the dict {} (falsy in Python; every
\* .get() on it yields the default or None).
\* nan = TRUE is a weight of NaN (the weight field is 0 then).
Prize(id, w, en) ==
    [id |-> id, name |-> id, weight |-> w, nan |-> FALSE, enabled |-> en, empty |-> FALSE]
EmptyDict ==
    [id |-> "None", name |-> "None", weight |-> 0, nan |-> FALSE, enabled |-> TRUE,
     empty |-> TRUE]
None == EmptyDict

\* A file of the store: st = "ok" holds a document of the expected top-level
\* type, "badshape" parses as JSON of another top-level type, "malformed"
\* does not parse, "missing" does not exist.
File(st, doc) == [st |-> st, doc |-> doc]
\* A config dict, by four of its keys: three of the keys save_config lets a
\* request set, and theme, a key the program does not know.
Config(d, v, m, x) ==
    [spin_duration_seconds |-> d, volume |-> v, modal_delay_ms |-> m, theme |-> x]
ConfigDoc(d) == Config(d, AbsentVal, AbsentVal, AbsentVal)

\* A Python value handed to save_json_file or returned by load_json_file:
\* the document it holds and its Python make.  py = "json" is built of
\* dicts with string keys and lists, "int_keys" is a dict keyed by
\* integers, "tuple" has a tuple where "json" has a list, "set" holds a set.
PyDoc(py, file) == [py |-> py, st |-> file.st, doc |-> file.doc]

\* json.dumps (line 179) raises TypeError for a set.
Serializable(data) == data.py # "set"
\* json.dump (line 188): keys are written as strings and tuples as arrays.
json_dump(data) == File(data.st, data.doc)
\* json.load (line 157): objects become dicts with string keys, arrays lists.
json_load(file) == PyDoc("json", file)

VARIABLES
    is_spinning,          \* WheelState.is_spinning
    total_spins_session,  \* WheelState.total_spins_session
    spin_start_time,      \* WheelState.spin_start_time: "None" or "time" (a timestamp)
    last_spin_source,     \* WheelState.last_spin_source
    last_winner,          \* WheelState.last_winner
    connected_clients,    \* WheelState.connected_clients
    wlock,                \* holder of WheelState._lock
    file_lock,            \* holder of file_lock
    disk,                 \* canonical files prizes.json, config.json, history.json
    tmp,                  \* the .tmp files next to them
    backup,               \* the newest .bak copy made of each file by create_backup
    button_elapsed,       \* time.time() - button_last_press, in seconds, capped at
                          \* BUTTON_DEBOUNCE_TIME
    faults,               \* I/O errors raised so far by the filesystem
    pc,                   \* position of each thread
    loc,                  \* locals of each thread
    spin_started,         \* spin numbers whose spin_started was emitted
    spin_complete,        \* number of spin_complete broadcasts per spin number
    state_update,         \* spin numbers whose state_update was emitted
    last_notice,          \* the last spin_rejected / spin_error notice emitted
    winner_sent,          \* per spin whose task runs: winner_id of spin_started, winner.id of spin_complete
    observer              \* request.sid and the status answer of the observer's request

vars == <<is_spinning, total_spins_session, spin_start_time, last_spin_source,
          last_winner, connected_clients, wlock, file_lock, disk, tmp, backup, button_elapsed,
          faults, pc, loc, spin_started, spin_complete, state_update, last_notice,
          winner_sent, observer>>

wheel == <<is_spinning, total_spins_session, spin_start_time, last_spin_source, last_winner,
          connected_clients>>
store == <<disk, tmp, backup, faults>>
broadcasts == <<spin_started, spin_complete, state_update, last_notice, winner_sent>>
events == <<broadcasts, observer>>

\* ---------------------------------------------------------------- locals
\* A local that has not been assigned.
Unbound == "unbound"

InitLoc == [source |-> "", prizes |-> <<>>, cfg |-> Unbound,
            hist |-> Unbound, winner |-> None, f |-> "", site |-> "",
            nested |-> FALSE, d |-> Unbound, sleep_left |-> 0,
            rand_val |-> 0, k |-> 0, logged |-> FALSE, prev |-> "", waited |-> 0,
            data |-> Unbound, got |-> Unbound, ret |-> "None",
            spin_number |-> 0, req |-> Unbound,
            prize_id |-> "", preq |-> Unbound]

\* The observer's request: the sid of the connecting or disconnecting client
\* and the status values of the answer.
NoRequest == [sid |-> "",
              seen |-> [is_spinning |-> FALSE, total_spins |-> 0, spin_duration |-> "0"]]

\* A spin_rejected or spin_error notice: its reason / error_type and, for
\* spin_rejected, the is_spinning of its current_state snapshot.
NoNotice == [ev |-> "none", reason |-> "", is_spinning |-> FALSE]
Notice(ev, reason, spinning) == [ev |-> ev, reason |-> reason, is_spinning |-> spinning]

\* No spin_started and no spin_complete has been emitted for any spin number.
NoneSent == [n \in 1..MaxSpins |-> [started |-> "", complete |-> ""]]

\* ------------------------------------------------------ weighted selector
RECURSIVE SumWeights(_)
SumWeights(ps) == IF ps = <<>> THEN 0 ELSE Head(ps).weight + SumWeights(Tail(ps))

\* p.get('weight', 0) > 0, which is False for NaN.
PositiveWeight(p) == ~p.nan /\ p.weight > 0

\* The walk stopping only where the running sum exceeds rand_val.
RECURSIVE Walk_strict(_, _, _)
Walk_strict(valid, rand_val, cumulative_weight) ==
    IF Len(valid) = 1 THEN Head(valid)
    ELSE IF rand_val < cumulative_weight + Head(valid).weight THEN Head(valid)
    ELSE Walk_strict(Tail(valid), rand_val, cumulative_weight + Head(valid).weight)

\* The cumulative walk of lines 423-433: the first prize whose running sum
\* reaches rand_val, the last prize if none does.
RECURSIVE Walk(_, _, _)
Walk(valid, rand_val, cumulative_weight) ==
    IF Len(valid) = 1 THEN Head(valid)
    ELSE IF rand_val <= cumulative_weight + Head(valid).weight THEN Head(valid)
    ELSE Walk(Tail(valid), rand_val, cumulative_weight + Head(valid).weight)

\* calculate_winner giving up when no prize has a positive weight.
calculate_winner_no_fallback(prizes, rand_val, k) ==
    IF prizes = <<>> THEN None
    ELSE LET valid_prizes == SelectSeq(prizes, PositiveWeight)
         IN IF valid_prizes = <<>> THEN None
            ELSE Walk(valid_prizes, rand_val, 0)

\* calculate_winner with its two random draws made explicit: rand_val for
\* random.uniform(0, total_weight), k for random.choice.
calculate_winner(prizes, rand_val, k) ==
    IF prizes = <<>> THEN None
    ELSE LET valid_prizes == SelectSeq(prizes, PositiveWeight)
             total_weight == SumWeights(valid_prizes)
         IN IF valid_prizes = <<>> THEN prizes[((k - 1) % Len(prizes)) + 1]
            ELSE IF total_weight <= 0 THEN valid_prizes[((k - 1) % Len(valid_prizes)) + 1]
            ELSE Walk(valid_prizes, rand_val, 0)

Winners(prizes) ==
    {calculate_winner(prizes, r, k) :
        r \in 0..SumWeights(SelectSeq(prizes, PositiveWeight)), k \in 1..Len(prizes)}

\* The values random.uniform(0, total_weight) can take, to the whole number;
\* the one above total_weight stands for a draw that no running sum reaches
\* (NaN, from an infinite total).  No draw is made when no prize has weight.
Draws(prizes) ==
    IF SelectSeq(prizes, PositiveWeight) = <<>> THEN {0}
    ELSE 0..(SumWeights(SelectSeq(prizes, PositiveWeight)) + 1)

\* The indices random.choice can take; 0 when random.choice is not called.
Choices(prizes) ==
    IF SelectSeq(prizes, PositiveWeight) = <<>> THEN 1..Len(prizes) ELSE {0}

IsEnabled(p) == p.enabled
Truthy(p) == ~p.empty

\* ------------------------------------------------------------ Python ops
\* spin_duration_s * 1000 (line 342) raises TypeError for None only.
CanMultiply(d) == d.ty # "null"
\* time.sleep(spin_duration_s) (line 391) raises for a negative number and
\* for every non-number.
CanSleep(d) == d.ty = "int" /\ d.v >= 0
\* config.get('spin_duration_seconds', 8)
GetDuration(doc) ==
    IF doc.spin_duration_seconds.ty = "absent" THEN IntVal(DefaultSpinDuration)
    ELSE doc.spin_duration_seconds

\* history[:100]
Cap(recs) == IF Len(recs) <= HistoryCap THEN recs ELSE SubSeq(recs, 1, HistoryCap)

\* ------------------------------------------------------------ WheelState
\* start_spin without the is_spinning test.
start_spin_unguarded(t) ==
    /\ pc[t] = "start_spin"
    /\ wlock = NoThread
    /\ is_spinning' = TRUE
    /\ wlock' = t
    /\ pc' = [pc EXCEPT ![t] = "start_spin_count"]
    /\ UNCHANGED <<total_spins_session, spin_start_time, last_spin_source, last_winner,
                   connected_clients, file_lock, store, button_elapsed, loc, events>>

\* start_spin counting the attempt before the is_spinning test.
start_spin_counts_attempt(t) ==
    /\ pc[t] = "start_spin"
    /\ wlock = NoThread
    /\ IF is_spinning
       THEN /\ pc' = [pc EXCEPT ![t] = "rejected"]
            /\ total_spins_session' = total_spins_session + 1
            /\ UNCHANGED <<is_spinning, wlock>>
       ELSE /\ is_spinning' = TRUE
            /\ wlock' = t
            /\ pc' = [pc EXCEPT ![t] = "start_spin_count"]
            /\ UNCHANGED total_spins_session
    /\ UNCHANGED <<spin_start_time, last_spin_source, last_winner,
                   connected_clients, file_lock, store, button_elapsed, loc, events>>

\* start_spin refusing while a spin ended less than a second ago.
start_spin_cooldown(t) ==
    /\ pc[t] = "start_spin"
    /\ wlock = NoThread
    /\ IF is_spinning \/ \E u \in Tasks : pc[u] \in {"emit_spin_complete", "dashboard_prizes",
                                                      "dashboard_history", "emit_state_update"}
                                          /\ loc[u].waited = 0
       THEN /\ pc' = [pc EXCEPT ![t] = "rejected"]
            /\ UNCHANGED <<is_spinning, wlock>>
       ELSE /\ is_spinning' = TRUE
            /\ wlock' = t
            /\ pc' = [pc EXCEPT ![t] = "start_spin_count"]
    /\ UNCHANGED <<total_spins_session, spin_start_time, last_spin_source, last_winner,
                   connected_clients, file_lock, store, button_elapsed, loc, events>>

\* start_spin: takes the lock, and either refuses (already spinning) or sets
\* is_spinning; the counter and the timestamp follow in their own steps,
\* still under the lock.
start_spin(t) ==
    /\ pc[t] = "start_spin"
    /\ wlock = NoThread
    /\ IF is_spinning
       THEN /\ pc' = [pc EXCEPT ![t] = "rejected"]
            /\ UNCHANGED <<is_spinning, wlock>>
       ELSE /\ is_spinning' = TRUE
            /\ wlock' = t
            /\ pc' = [pc EXCEPT ![t] = "start_spin_count"]
    /\ UNCHANGED <<total_spins_session, spin_start_time, last_spin_source, last_winner,
                   connected_clients, file_lock, store, button_elapsed, loc, events>>

\* start_spin without the increment of the counter.
start_spin_count_skipped(t) ==
    /\ pc[t] = "start_spin_count"
    /\ pc' = [pc EXCEPT ![t] = "start_spin_time"]
    /\ loc' = [loc EXCEPT ![t].spin_number = total_spins_session]
    /\ UNCHANGED <<is_spinning, total_spins_session, spin_start_time, last_spin_source,
                   last_winner, wlock, connected_clients, file_lock, store, button_elapsed,
                   events>>

\* self.total_spins_session += 1 (line 90); the call knows the number of the
\* spin it started (the one its STARTED line logs).
start_spin_count(t) ==
    /\ pc[t] = "start_spin_count"
    /\ total_spins_session' = total_spins_session + 1
    /\ pc' = [pc EXCEPT ![t] = "start_spin_time"]
    /\ loc' = [loc EXCEPT ![t].spin_number = total_spins_session + 1]
    /\ UNCHANGED <<is_spinning, spin_start_time, last_spin_source, last_winner, wlock,
                   connected_clients, file_lock, store, button_elapsed, events>>

\* start_spin returning with the lock still held.
start_spin_time_keeps_lock(t) ==
    /\ pc[t] = "start_spin_time"
    /\ spin_start_time' = "time"
    /\ pc' = [pc EXCEPT ![t] = "accepted"]
    /\ UNCHANGED <<is_spinning, total_spins_session, last_spin_source, last_winner,
                   connected_clients, wlock, file_lock, store, button_elapsed, loc, events>>

start_spin_time(t) ==
    /\ pc[t] = "start_spin_time"
    /\ spin_start_time' = "time"
    /\ wlock' = NoThread
    /\ pc' = [pc EXCEPT ![t] = "accepted"]
    /\ UNCHANGED <<is_spinning, total_spins_session, last_spin_source, last_winner,
                   connected_clients, file_lock, store, button_elapsed, loc, events>>

\* get_status: the snapshot taken under the lock.  spin_duration is 0 when
\* spin_start_time is None and the time since spin_start_time otherwise.
get_status == [is_spinning |-> is_spinning, total_spins |-> total_spins_session,
               last_winner |-> last_winner,
               spin_duration |-> IF spin_start_time = "None" THEN "0" ELSE "since_start"]

\* Where a thread goes when end_spin returns: a handler that aborted returns
\* False; complete_spin goes on to its broadcasts.
AfterEndSpin(t) == IF t.k = "task" THEN "emit_spin_complete" ELSE "idle"

\* end_spin flipping is_spinning instead of clearing it.
end_spin_toggle(t) ==
    /\ pc[t] = "end_spin"
    /\ wlock = NoThread
    /\ wlock' = t
    /\ loc' = [loc EXCEPT ![t].logged = is_spinning]
    /\ is_spinning' = ~is_spinning
    /\ pc' = [pc EXCEPT ![t] = "end_spin_time"]
    /\ UNCHANGED <<total_spins_session, spin_start_time, last_spin_source, last_winner,
                   connected_clients, file_lock, store, button_elapsed, events>>

\* Lines 98-103: the COMPLETED line is logged if the guard was Spinning, and
\* is_spinning is cleared either way.
end_spin(t) ==
    /\ pc[t] = "end_spin"
    /\ wlock = NoThread
    /\ wlock' = t
    /\ loc' = [loc EXCEPT ![t].logged = is_spinning]
    /\ is_spinning' = FALSE
    /\ pc' = [pc EXCEPT ![t] = "end_spin_time"]
    /\ UNCHANGED <<total_spins_session, spin_start_time, last_spin_source, last_winner,
                   connected_clients, file_lock, store, button_elapsed, events>>

\* The caller's locals once end_spin has returned; the direct caller keeps
\* what its call found.
EndSpinLocals(t) ==
    IF t.k = "task" THEN [loc[t] EXCEPT !.waited = 0]
    ELSE IF t = Client
    THEN [InitLoc EXCEPT !.prev = IF loc[t].logged THEN "released" ELSE "noop"]
    ELSE InitLoc

\* end_spin without the reset of spin_start_time.
end_spin_time_kept(t) ==
    /\ pc[t] = "end_spin_time"
    /\ wlock' = NoThread
    /\ pc' = [pc EXCEPT ![t] = AfterEndSpin(t)]
    /\ loc' = [loc EXCEPT ![t] = EndSpinLocals(t)]
    /\ UNCHANGED <<is_spinning, total_spins_session, spin_start_time, last_spin_source,
                   last_winner, connected_clients, file_lock, store, button_elapsed, events>>

end_spin_time(t) ==
    /\ pc[t] = "end_spin_time"
    /\ spin_start_time' = "None"
    /\ wlock' = NoThread
    /\ pc' = [pc EXCEPT ![t] = AfterEndSpin(t)]
    /\ loc' = [loc EXCEPT ![t] = EndSpinLocals(t)]
    /\ UNCHANGED <<is_spinning, total_spins_session, last_spin_source, last_winner,
                   connected_clients, file_lock, store, button_elapsed, events>>

\* ------------------------------------------------------------------ store
Files == {"prizes", "config", "history"}

\* default_prizes and default_config of initialize_default_files (the
\* weights 0.5 and 10 as 1 and 10).
DefaultPrizes == <<Prize("1", 1, TRUE), Prize("2", 10, TRUE)>>
default_config == Config(IntVal(DefaultSpinDuration), IntVal(75), IntVal(3000), AbsentVal)

\* The call sites of load_json_file, named by the position of the caller.
ClientSites == {"client_load_prizes", "client_load_config", "client_load_history"}
PrizeSites == {"add_load", "update_load", "delete_load"}
InitSites == {"init_config", "init_prizes", "init_history"}
LoadSites == {"load_prizes", "load_config", "load_history", "config_load",
              "dashboard_prizes", "dashboard_history", "clear_load",
              "connect_prizes", "connect_history"}
                 \cup ClientSites \cup PrizeSites \cup InitSites

SiteFile(site) ==
    CASE site \in {"load_prizes", "dashboard_prizes", "client_load_prizes", "init_prizes",
                    "connect_prizes"} \cup PrizeSites -> "prizes"
      [] site \in {"load_config", "config_load", "client_load_config", "init_config"}
            -> "config"
      [] OTHER -> "history"

SiteNext(site) ==
    CASE site = "load_prizes" -> "load_config"
      [] site = "load_config" -> "select"
      [] site = "load_history" -> "append"
      [] site = "config_load" -> "config_merge"
      [] site = "dashboard_prizes" -> "dashboard_history"
      [] site \in ClientSites -> "client_loaded"
      [] site = "add_load" -> "add_append"
      [] site = "update_load" -> "update_find"
      [] site = "delete_load" -> "delete_find"
      [] site = "init_config" -> "init_prizes"
      [] site = "init_prizes" -> "init_history"
      [] site = "init_history" -> "socketio_run"
      [] site = "clear_load" -> "clear_backup"
      [] site = "connect_prizes" -> "connect_history"
      [] site = "connect_history" -> "connection_confirmed"
      [] OTHER -> "emit_state_update"

\* default_data of each call site.
SiteDefault(site) ==
    CASE site = "load_config" -> File("ok", ConfigDoc(IntVal(DefaultSpinDuration)))
      [] site \in {"config_load", "client_load_config"} -> File("ok", ConfigDoc(AbsentVal))
      [] site = "init_config" -> File("ok", default_config)
      [] site = "init_prizes" -> File("ok", DefaultPrizes)
      [] OTHER -> File("ok", <<>>)

\* No such file.
NoFile(f) == File("missing", IF f = "config" THEN ConfigDoc(AbsentVal) ELSE <<>>)

\* json.load succeeds and, for prizes.json, yields a list (lines 157-161).
Loads(f, file) == file.st = "ok" \/ (file.st = "badshape" /\ f # "prizes")

\* The caller's locals once load_json_file has returned `file`.
Returned(t, site, file) ==
    CASE site \in {"load_prizes"} \cup PrizeSites -> [loc[t] EXCEPT !.prizes = file.doc]
      [] site \in {"load_config", "config_load"} -> [loc[t] EXCEPT !.cfg = file]
      [] site \in {"load_history", "clear_load"} -> [loc[t] EXCEPT !.hist = file]
      [] site \in ClientSites -> [loc[t] EXCEPT !.got = json_load(file)]
      [] OTHER -> loc[t]

\* create_backup(filename): a copy of the file as it is, if it exists.
create_backup(f) == IF disk[f].st = "missing" THEN backup ELSE [backup EXCEPT ![f] = disk[f]]

load_json_file(t) ==
    /\ pc[t] \in LoadSites
    /\ file_lock = NoThread
    /\ LET site == pc[t]
           f == SiteFile(site)
       IN IF Loads(f, disk[f])
          THEN /\ pc' = [pc EXCEPT ![t] = SiteNext(site)]
               /\ loc' = [loc EXCEPT ![t] = Returned(t, site, disk[f])]
               /\ UNCHANGED <<file_lock, backup>>
          ELSE \* missing (line 153) or corrupted (lines 164-167):
               \* save_json_file is called with file_lock held
               /\ file_lock' = t
               /\ backup' = create_backup(f)
               /\ pc' = [pc EXCEPT ![t] = "save_json_file"]
               /\ loc' = [loc EXCEPT ![t].f = f, ![t].site = site, ![t].nested = TRUE]
    /\ UNCHANGED <<wheel, wlock, disk, tmp, faults, button_elapsed, events>>

\* open() or the read raises IOError: default_data is returned and nothing
\* is written (lines 170-172).
load_json_file_ioerror(t) ==
    /\ pc[t] \in LoadSites
    /\ file_lock = NoThread
    /\ disk[SiteFile(pc[t])].st # "missing"
    /\ faults < MaxFaults
    /\ faults' = faults + 1
    /\ pc' = [pc EXCEPT ![t] = SiteNext(pc[t])]
    /\ loc' = [loc EXCEPT ![t] = Returned(t, pc[t], SiteDefault(pc[t]))]
    /\ UNCHANGED <<wheel, wlock, file_lock, disk, tmp, backup, button_elapsed, events>>

\* The document a save_json_file call was given.
SaveData(t) ==
    IF loc[t].nested THEN PyDoc("json", SiteDefault(loc[t].site))
    ELSE IF loc[t].site = "client_save" THEN loc[t].data
    ELSE IF loc[t].f = "history" THEN PyDoc("json", File("ok", Cap(loc[t].hist.doc)))
    ELSE IF loc[t].f = "prizes" THEN PyDoc("json", File("ok", loc[t].prizes))
    ELSE PyDoc("json", loc[t].cfg)

\* Where the caller of save_json_file continues when it returns `success`;
\* the prize endpoints answer 200 or 500 by it.
AfterSave(t, success) ==
    IF loc[t].nested THEN SiteNext(loc[t].site)
    ELSE IF loc[t].site = "client_save" THEN "client_saved"
    ELSE IF loc[t].f = "prizes" \/ (loc[t].f = "history" /\ t \in Admins)
    THEN (IF success THEN "http_200" ELSE "http_500")
    ELSE IF loc[t].f = "history" THEN "commit"
    ELSE "idle"

\* The caller's locals once save_json_file has returned `success`; only a
\* caller that keeps the result has it in its locals.
AfterSaveLocals(t, success) ==
    IF loc[t].nested
    THEN [Returned(t, loc[t].site, SiteDefault(loc[t].site)) EXCEPT !.nested = FALSE]
    ELSE IF loc[t].site = "client_save"
    THEN [loc[t] EXCEPT !.ret = IF success THEN "True" ELSE "False"]
    ELSE IF loc[t].f \in {"history", "prizes"} THEN loc[t]
    ELSE InitLoc

\* The .bak copy save_json_file makes of an existing prizes.json
\* (lines 182-183).
SaveBackup(f) == IF f = "prizes" THEN create_backup(f) ELSE backup

\* save_json_file opening the canonical file for writing before the replace.
save_json_file_in_place(t) ==
    /\ pc[t] = "save_json_file"
    /\ file_lock = NoThread
    /\ IF Serializable(SaveData(t))
       THEN /\ file_lock' = t
            /\ backup' = SaveBackup(loc[t].f)
            /\ tmp' = [tmp EXCEPT ![loc[t].f] = json_dump(SaveData(t))]
            /\ disk' = [disk EXCEPT ![loc[t].f] = File("malformed", @.doc)]
            /\ pc' = [pc EXCEPT ![t] = "save_replace"]
            /\ UNCHANGED loc
       ELSE /\ pc' = [pc EXCEPT ![t] = AfterSave(t, FALSE)]
            /\ loc' = [loc EXCEPT ![t] = AfterSaveLocals(t, FALSE)]
            /\ UNCHANGED <<file_lock, backup, tmp, disk>>
    /\ UNCHANGED <<wheel, wlock, faults, button_elapsed, events>>

\* save_json_file writing its temp file without taking file_lock.
save_json_file_unlocked(t) ==
    /\ pc[t] = "save_json_file"
    /\ IF Serializable(SaveData(t))
       THEN /\ file_lock' = t
            /\ backup' = SaveBackup(loc[t].f)
            /\ tmp' = [tmp EXCEPT ![loc[t].f] = json_dump(SaveData(t))]
            /\ pc' = [pc EXCEPT ![t] = "save_replace"]
            /\ UNCHANGED loc
       ELSE /\ pc' = [pc EXCEPT ![t] = AfterSave(t, FALSE)]
            /\ loc' = [loc EXCEPT ![t] = AfterSaveLocals(t, FALSE)]
            /\ UNCHANGED <<file_lock, backup, tmp>>
    /\ UNCHANGED <<wheel, wlock, disk, faults, button_elapsed, events>>

\* with file_lock: (line 176) and json.dumps (line 179); a value json.dumps
\* refuses makes the call return False (lines 192-201), any other is written
\* to the temp file (lines 182-188).
save_json_file(t) ==
    /\ pc[t] = "save_json_file"
    /\ file_lock = NoThread
    /\ IF Serializable(SaveData(t))
       THEN /\ file_lock' = t
            /\ backup' = SaveBackup(loc[t].f)
            /\ tmp' = [tmp EXCEPT ![loc[t].f] = json_dump(SaveData(t))]
            /\ pc' = [pc EXCEPT ![t] = "save_replace"]
            /\ UNCHANGED loc
       ELSE /\ pc' = [pc EXCEPT ![t] = AfterSave(t, FALSE)]
            /\ loc' = [loc EXCEPT ![t] = AfterSaveLocals(t, FALSE)]
            /\ UNCHANGED <<file_lock, backup, tmp>>
    /\ UNCHANGED <<wheel, wlock, disk, faults, button_elapsed, events>>

\* A failed write that leaves the canonical file truncated.
save_json_file_ioerror_in_place(t) ==
    /\ pc[t] = "save_json_file"
    /\ file_lock = NoThread
    /\ Serializable(SaveData(t))
    /\ faults < MaxFaults
    /\ faults' = faults + 1
    /\ backup' = SaveBackup(loc[t].f)
    /\ disk' = [disk EXCEPT ![loc[t].f] = File("malformed", @.doc)]
    /\ pc' = [pc EXCEPT ![t] = AfterSave(t, FALSE)]
    /\ loc' = [loc EXCEPT ![t] = AfterSaveLocals(t, FALSE)]
    /\ UNCHANGED <<wheel, wlock, file_lock, tmp, button_elapsed, events>>

\* with file_lock:, and writing the temp file raises IOError: the temp file
\* is removed and False is returned (lines 192-201).
save_json_file_ioerror(t) ==
    /\ pc[t] = "save_json_file"
    /\ file_lock = NoThread
    /\ Serializable(SaveData(t))
    /\ faults < MaxFaults
    /\ faults' = faults + 1
    /\ backup' = SaveBackup(loc[t].f)
    /\ pc' = [pc EXCEPT ![t] = AfterSave(t, FALSE)]
    /\ loc' = [loc EXCEPT ![t] = AfterSaveLocals(t, FALSE)]
    /\ UNCHANGED <<wheel, wlock, file_lock, disk, tmp, button_elapsed, events>>

\* A save that reports success without replacing the canonical file.
save_json_file_no_replace(t) ==
    /\ pc[t] = "save_replace"
    /\ tmp' = [tmp EXCEPT ![loc[t].f] = NoFile(loc[t].f)]
    /\ file_lock' = NoThread
    /\ pc' = [pc EXCEPT ![t] = AfterSave(t, TRUE)]
    /\ loc' = [loc EXCEPT ![t] = AfterSaveLocals(t, TRUE)]
    /\ UNCHANGED <<wheel, wlock, disk, backup, faults, button_elapsed, events>>

\* os.replace(temp_filename, filename); return True (lines 189-191)
save_json_file_replace(t) ==
    /\ pc[t] = "save_replace"
    /\ disk' = [disk EXCEPT ![loc[t].f] = tmp[loc[t].f]]
    /\ tmp' = [tmp EXCEPT ![loc[t].f] = NoFile(loc[t].f)]
    /\ file_lock' = NoThread
    /\ pc' = [pc EXCEPT ![t] = AfterSave(t, TRUE)]
    /\ loc' = [loc EXCEPT ![t] = AfterSaveLocals(t, TRUE)]
    /\ UNCHANGED <<wheel, wlock, backup, faults, button_elapsed, events>>

\* --------------------------------------------------------- input adapters
\* Requests are taken while the session counter can still grow within the
\* model's bound.
Pending == {t \in Callers : pc[t] \in {"start_spin", "start_spin_count"}}
CanRequest == total_spins_session + Cardinality(Pending) < MaxSpins

\* @socketio.on('trigger_spin_from_web')
handle_web_spin_request(t) ==
    /\ t = Web
    /\ pc[t] = "idle"
    /\ CanRequest
    /\ pc' = [pc EXCEPT ![t] = "start_spin"]
    /\ loc' = [loc EXCEPT ![t] = [InitLoc EXCEPT !.source = "web_interface"]]
    /\ UNCHANGED <<wheel, wlock, file_lock, store, button_elapsed, events>>

\* POST /api/spin: the unlocked look at is_spinning (line 1168), then the flow.
trigger_spin_api(t) ==
    /\ t = Api
    /\ pc[t] = "idle"
    /\ CanRequest
    /\ pc' = [pc EXCEPT ![t] = IF is_spinning THEN "api_busy" ELSE "start_spin"]
    /\ loc' = [loc EXCEPT ![t] = [InitLoc EXCEPT !.source = "api_rest_api"]]
    /\ UNCHANGED <<wheel, wlock, file_lock, store, button_elapsed, events>>

\* The 409 answer of lines 1170-1177, with its get_status() snapshot.
trigger_spin_api_busy(t) ==
    /\ pc[t] = "api_busy"
    /\ wlock = NoThread
    /\ pc' = [pc EXCEPT ![t] = "idle"]
    /\ loc' = [loc EXCEPT ![t] = InitLoc]
    /\ UNCHANGED <<wheel, wlock, file_lock, store, button_elapsed, events>>

\* The answer to an accepted request (lines 1190-1193): spin_number is
\* wheel_state.total_spins_session as it is when the answer is built.
api_success_payload == [success |-> TRUE, spin_number |-> total_spins_session]

\* trigger_spin_flow returned True: the 200 answer of lines 1189-1196.
trigger_spin_api_success(t) ==
    /\ pc[t] = "api_success"
    /\ pc' = [pc EXCEPT ![t] = "idle"]
    /\ loc' = [loc EXCEPT ![t] = InitLoc]
    /\ UNCHANGED <<wheel, wlock, file_lock, store, button_elapsed, events>>

\* The GPIO edge callback without the debounce test.
gpio_button_callback_no_debounce(t) ==
    /\ t = Gpio
    /\ pc[t] = "idle"
    /\ CanRequest
    /\ button_elapsed' = 0
    /\ IF is_spinning
       THEN UNCHANGED <<pc, loc>>
       ELSE /\ pc' = [pc EXCEPT ![t] = "start_spin"]
            /\ loc' = [loc EXCEPT ![t] = [InitLoc EXCEPT !.source = "hardware_button"]]
    /\ UNCHANGED <<wheel, wlock, file_lock, store, events>>

\* The GPIO edge callback: debounce, then the unlocked look at is_spinning.
gpio_button_callback(t) ==
    /\ t = Gpio
    /\ pc[t] = "idle"
    /\ CanRequest
    /\ IF button_elapsed < BUTTON_DEBOUNCE_TIME
       THEN UNCHANGED <<button_elapsed, pc, loc>>
       ELSE /\ button_elapsed' = 0
            /\ IF is_spinning
               THEN UNCHANGED <<pc, loc>>
               ELSE /\ pc' = [pc EXCEPT ![t] = "start_spin"]
                    /\ loc' = [loc EXCEPT ![t] = [InitLoc EXCEPT !.source = "hardware_button"]]
    /\ UNCHANGED <<wheel, wlock, file_lock, store, events>>

\* ---------------------------------------------------------------- observers
\* The session ids of the socket clients.
Sids == {"s1", "s2"}

\* What an observer keeps of a get_status() snapshot.
Snapshot(status) == [is_spinning |-> status.is_spinning, total_spins |-> status.total_spins,
                     spin_duration |-> status.spin_duration]

\* @socketio.on('connect') for the client sid.
handle_connect(t, sid) ==
    /\ t = Observer
    /\ pc[t] = "idle"
    /\ pc' = [pc EXCEPT ![t] = "add_client"]
    /\ loc' = [loc EXCEPT ![t] = InitLoc]
    /\ observer' = [NoRequest EXCEPT !.sid = sid]
    /\ UNCHANGED <<wheel, wlock, file_lock, store, button_elapsed, broadcasts>>

\* add_client (lines 106-114): the lock, and the client is added.
add_client(t) ==
    /\ pc[t] = "add_client"
    /\ wlock = NoThread
    /\ wlock' = t
    /\ connected_clients' = connected_clients \cup {observer.sid}
    /\ pc' = [pc EXCEPT ![t] = "add_client_metrics"]
    /\ UNCHANGED <<is_spinning, total_spins_session, spin_start_time, last_spin_source,
                   last_winner, file_lock, store, button_elapsed, loc, events>>

\* add_client returning to handle_connect with the lock still held.
add_client_metrics_keeps_lock(t) ==
    /\ pc[t] = "add_client_metrics"
    /\ pc' = [pc EXCEPT ![t] = "connect_prizes"]
    /\ UNCHANGED <<wheel, wlock, file_lock, store, button_elapsed, loc, events>>

\* The metrics of add_client; the lock is released and handle_connect goes
\* on to get_dashboard_state (line 1381).
add_client_metrics(t) ==
    /\ pc[t] = "add_client_metrics"
    /\ wlock' = NoThread
    /\ pc' = [pc EXCEPT ![t] = "connect_prizes"]
    /\ UNCHANGED <<wheel, file_lock, store, button_elapsed, loc, events>>

\* connection_confirmed with the get_status() snapshot (lines 1382-1387).
connection_confirmed(t) ==
    /\ pc[t] = "connection_confirmed"
    /\ wlock = NoThread
    /\ pc' = [pc EXCEPT ![t] = "idle"]
    /\ loc' = [loc EXCEPT ![t] = InitLoc]
    /\ observer' = [NoRequest EXCEPT !.seen = Snapshot(get_status)]
    /\ UNCHANGED <<wheel, wlock, file_lock, store, button_elapsed, broadcasts>>

\* @socketio.on('disconnect') for the client sid.
handle_disconnect(t, sid) ==
    /\ t = Observer
    /\ pc[t] = "idle"
    /\ pc' = [pc EXCEPT ![t] = "remove_client"]
    /\ loc' = [loc EXCEPT ![t] = InitLoc]
    /\ observer' = [NoRequest EXCEPT !.sid = sid]
    /\ UNCHANGED <<wheel, wlock, file_lock, store, button_elapsed, broadcasts>>

\* remove_client (lines 116-119): the lock, and the client is discarded.
remove_client(t) ==
    /\ pc[t] = "remove_client"
    /\ wlock = NoThread
    /\ wlock' = t
    /\ connected_clients' = connected_clients \ {observer.sid}
    /\ pc' = [pc EXCEPT ![t] = "remove_client_return"]
    /\ UNCHANGED <<is_spinning, total_spins_session, spin_start_time, last_spin_source,
                   last_winner, file_lock, store, button_elapsed, loc, events>>

remove_client_return(t) ==
    /\ pc[t] = "remove_client_return"
    /\ wlock' = NoThread
    /\ pc' = [pc EXCEPT ![t] = "idle"]
    /\ loc' = [loc EXCEPT ![t] = InitLoc]
    /\ observer' = NoRequest
    /\ UNCHANGED <<wheel, file_lock, store, button_elapsed, broadcasts>>

\* GET /api/spin/status: wheel_state.is_spinning read on the object
\* (line 1221).
get_spin_status(t) ==
    /\ t = Observer
    /\ pc[t] = "idle"
    /\ pc' = [pc EXCEPT ![t] = "status_total_spins"]
    /\ loc' = [loc EXCEPT ![t] = InitLoc]
    /\ observer' = [NoRequest EXCEPT !.seen.is_spinning = is_spinning]
    /\ UNCHANGED <<wheel, wlock, file_lock, store, button_elapsed, broadcasts>>

\* wheel_state.total_spins_session read on the object (line 1223).
get_spin_status_total_spins(t) ==
    /\ pc[t] = "status_total_spins"
    /\ pc' = [pc EXCEPT ![t] = "status_detailed"]
    /\ observer' = [observer EXCEPT !.seen.total_spins = total_spins_session]
    /\ UNCHANGED <<wheel, wlock, file_lock, store, button_elapsed, loc, broadcasts>>

\* 'detailed_status': wheel_state.get_status() (line 1226), and the answer.
get_spin_status_detailed(t) ==
    /\ pc[t] = "status_detailed"
    /\ wlock = NoThread
    /\ pc' = [pc EXCEPT ![t] = "idle"]
    /\ loc' = [loc EXCEPT ![t] = InitLoc]
    /\ observer' = [NoRequest EXCEPT !.seen = Snapshot(get_status)]
    /\ UNCHANGED <<wheel, wlock, file_lock, store, button_elapsed, broadcasts>>

\* One step of an observer.
Observe(t) ==
    \/ \E sid \in Sids : handle_connect(t, sid)
    \/ add_client(t)
    \/ add_client_metrics(t)
    \/ connection_confirmed(t)
    \/ \E sid \in Sids : handle_disconnect(t, sid)
    \/ remove_client(t)
    \/ remove_client_return(t)
    \/ get_spin_status(t)
    \/ get_spin_status_total_spins(t)
    \/ get_spin_status_detailed(t)

\* ------------------------------------------------------ trigger_spin_flow
\* spin_rejected with the source recorded before the guard was asked.
spin_rejected_records_source(t) ==
    /\ pc[t] = "rejected"
    /\ wlock = NoThread
    /\ last_notice' = Notice("spin_rejected", "wheel_busy", get_status.is_spinning)
    /\ last_spin_source' = loc[t].source
    /\ pc' = [pc EXCEPT ![t] = "idle"]
    /\ loc' = [loc EXCEPT ![t] = InitLoc]
    /\ UNCHANGED <<is_spinning, total_spins_session, spin_start_time, last_winner, wlock,
                   connected_clients, file_lock, store, button_elapsed, spin_started, spin_complete, state_update, winner_sent, observer>>

\* A rejection that resets the guard.
spin_rejected_releases(t) ==
    /\ pc[t] = "rejected"
    /\ wlock = NoThread
    /\ last_notice' = Notice("spin_rejected", "wheel_busy", get_status.is_spinning)
    /\ is_spinning' = FALSE
    /\ pc' = [pc EXCEPT ![t] = "idle"]
    /\ loc' = [loc EXCEPT ![t] = InitLoc]
    /\ UNCHANGED <<total_spins_session, spin_start_time, last_spin_source, last_winner,
                   connected_clients, wlock, file_lock, store, button_elapsed,
                   spin_started, spin_complete, state_update, winner_sent, observer>>

\* start_spin returned False: the spin_rejected notice with the get_status()
\* snapshot, return False (lines 275-285).
spin_rejected(t) ==
    /\ pc[t] = "rejected"
    /\ wlock = NoThread
    /\ last_notice' = Notice("spin_rejected", "wheel_busy", get_status.is_spinning)
    /\ pc' = [pc EXCEPT ![t] = "idle"]
    /\ loc' = [loc EXCEPT ![t] = InitLoc]
    /\ UNCHANGED <<wheel, wlock, file_lock, store, button_elapsed,
                   spin_started, spin_complete, state_update, winner_sent, observer>>

\* wheel_state.last_spin_source = source (line 288)
spin_accepted(t) ==
    /\ pc[t] = "accepted"
    /\ last_spin_source' = loc[t].source
    /\ pc' = [pc EXCEPT ![t] = "load_prizes"]
    /\ UNCHANGED <<is_spinning, total_spins_session, spin_start_time, last_winner, wlock,
                   connected_clients, file_lock, store, button_elapsed, loc, events>>

\* An abort that returns False without end_spin.
Abort_without_end_spin(t, error_type) ==
    /\ last_notice' = Notice("spin_error", error_type, FALSE)
    /\ pc' = [pc EXCEPT ![t] = "idle"]

\* The except branch, and both explicit aborts: a spin_error notice, then
\* end_spin and return False.
Abort(t, error_type) ==
    /\ last_notice' = Notice("spin_error", error_type, FALSE)
    /\ pc' = [pc EXCEPT ![t] = "end_spin"]

\* Every loaded prize, enabled or not.
enabled_prizes_unfiltered(t) == loc[t].prizes

\* The prizes line 302 keeps.
enabled_prizes(t) == SelectSeq(loc[t].prizes, IsEnabled)

\* The no-prizes abort returning without end_spin.
select_winner_keeps_guard(t) ==
    /\ pc[t] = "select"
    /\ IF enabled_prizes(t) = <<>>
       THEN Abort_without_end_spin(t, "no_prizes") /\ UNCHANGED loc
       ELSE /\ \E r \in Draws(enabled_prizes(t)), k \in Choices(enabled_prizes(t)) :
                  loc' = [loc EXCEPT ![t].rand_val = r, ![t].k = k]
            /\ pc' = [pc EXCEPT ![t] = "calculate_winner"]
            /\ UNCHANGED last_notice
    /\ UNCHANGED <<wheel, wlock, file_lock, store, button_elapsed,
                   spin_started, spin_complete, state_update, winner_sent, observer>>

\* Lines 302-312: the enabled prizes; none aborts the spin, otherwise
\* calculate_winner is entered and makes its random draw.
select_winner(t) ==
    /\ pc[t] = "select"
    /\ IF enabled_prizes(t) = <<>>
       THEN Abort(t, "no_prizes") /\ UNCHANGED loc
       ELSE /\ \E r \in Draws(enabled_prizes(t)), k \in Choices(enabled_prizes(t)) :
                  loc' = [loc EXCEPT ![t].rand_val = r, ![t].k = k]
            /\ pc' = [pc EXCEPT ![t] = "calculate_winner"]
            /\ UNCHANGED last_notice
    /\ UNCHANGED <<wheel, wlock, file_lock, store, button_elapsed,
                   spin_started, spin_complete, state_update, winner_sent, observer>>

\* calculate_winner returns (line 312); a falsy winner aborts the spin
\* (lines 313-320).
select_winner_return(t) ==
    /\ pc[t] = "calculate_winner"
    /\ LET winner == calculate_winner(enabled_prizes(t), loc[t].rand_val, loc[t].k)
       IN IF Truthy(winner)
          THEN /\ loc' = [loc EXCEPT ![t].winner = winner, ![t].rand_val = 0, ![t].k = 0]
               /\ pc' = [pc EXCEPT ![t] = "load_history"]
               /\ UNCHANGED last_notice
          ELSE Abort(t, "calculation_failed") /\ UNCHANGED loc
    /\ UNCHANGED <<wheel, wlock, file_lock, store, button_elapsed,
                   spin_started, spin_complete, state_update, winner_sent, observer>>

\* The record of lines 324-331, by the fields that identify the spin.
spin_record(t) == [prize_id |-> loc[t].winner.id, session_spin |-> total_spins_session]

\* history.insert(0, spin_record) (line 336); a history that is no list
\* raises, which the except branch turns into an abort.
append_history(t) ==
    /\ pc[t] = "append"
    /\ IF loc[t].hist.st = "ok"
       THEN /\ loc' = [loc EXCEPT ![t].hist.doc = <<spin_record(t)>> \o @,
                                  ![t].f = "history", ![t].nested = FALSE]
            /\ pc' = [pc EXCEPT ![t] = "save_json_file"]
            /\ UNCHANGED last_notice
       ELSE Abort(t, "server_error") /\ UNCHANGED loc
    /\ UNCHANGED <<wheel, wlock, file_lock, store, button_elapsed,
                   spin_started, spin_complete, state_update, winner_sent, observer>>

\* Lines 339-357: last_winner, then the timing values read from the config;
\* a config that is no dict, or a null duration, raises.
commit_winner(t) ==
    /\ pc[t] = "commit"
    /\ last_winner' = loc[t].winner.name
    /\ IF loc[t].cfg.st = "ok" /\ CanMultiply(GetDuration(loc[t].cfg.doc))
       THEN /\ loc' = [loc EXCEPT ![t].d = GetDuration(loc[t].cfg.doc)]
            /\ pc' = [pc EXCEPT ![t] = "emit_spin_started"]
            /\ UNCHANGED last_notice
       ELSE Abort(t, "server_error") /\ UNCHANGED loc
    /\ UNCHANGED <<is_spinning, total_spins_session, spin_start_time, last_spin_source,
                   wlock, connected_clients, file_lock, store, button_elapsed,
                   spin_started, spin_complete, state_update, winner_sent, observer>>

\* Where trigger_spin_flow returns True to: the REST endpoint builds its
\* answer, the other adapters are done.
AfterFlow(t) == IF t = Api THEN "api_success" ELSE "idle"
AfterFlowLocals(t) ==
    IF t = Api THEN [InitLoc EXCEPT !.spin_number = loc[t].spin_number] ELSE InitLoc

\* socketio.emit('spin_started'), start_background_task, return True
\* (lines 360-392).
emit_spin_started(t) ==
    /\ pc[t] = "emit_spin_started"
    /\ spin_started' = spin_started \cup {total_spins_session}
    /\ winner_sent' = [winner_sent EXCEPT ![total_spins_session].started = loc[t].winner.id]
    /\ pc' = [pc EXCEPT ![t] = AfterFlow(t), ![Task(total_spins_session)] = "background_task"]
    /\ loc' = [loc EXCEPT ![t] = AfterFlowLocals(t),
                          ![Task(total_spins_session)] =
                              [InitLoc EXCEPT !.winner = loc[t].winner, !.d = loc[t].d,
                                              !.source = loc[t].source]]
    /\ UNCHANGED <<wheel, wlock, file_lock, store, button_elapsed,
                   spin_complete, state_update, last_notice, observer>>

\* -------------------------------------------------------- background task
\* lambda: (time.sleep(spin_duration_s), complete_spin()) (line 391): a
\* duration time.sleep refuses ends the task before complete_spin.
background_task(t) ==
    /\ pc[t] = "background_task"
    /\ IF CanSleep(loc[t].d)
       THEN /\ pc' = [pc EXCEPT ![t] = "sleeping"]
            /\ loc' = [loc EXCEPT ![t].sleep_left = loc[t].d.v]
       ELSE /\ pc' = [pc EXCEPT ![t] = "raised"]
            /\ UNCHANGED loc
    /\ UNCHANGED <<wheel, wlock, file_lock, store, button_elapsed, events>>

\* The sleep is over: complete_spin starts with end_spin (line 366).
complete_spin(t) ==
    /\ pc[t] = "sleeping"
    /\ loc[t].sleep_left = 0
    /\ pc' = [pc EXCEPT ![t] = "end_spin"]
    /\ UNCHANGED <<wheel, wlock, file_lock, store, button_elapsed, loc, events>>

\* A spin_complete whose winner is looked up in prizes.json as it is when the
\* completion runs.
emit_spin_complete_reloads(t) ==
    /\ pc[t] = "emit_spin_complete"
    /\ spin_complete' = [spin_complete EXCEPT ![t.n] = @ + 1]
    /\ winner_sent' =
          [winner_sent EXCEPT ![t.n].complete =
              IF \E i \in 1..Len(disk.prizes.doc) : disk.prizes.doc[i].id = loc[t].winner.id
              THEN loc[t].winner.id ELSE "None"]
    /\ pc' = [pc EXCEPT ![t] = "dashboard_prizes"]
    /\ UNCHANGED <<wheel, wlock, file_lock, store, button_elapsed, loc,
                   spin_started, state_update, last_notice, observer>>

\* socketio.emit('spin_complete') (line 380), then get_dashboard_state.
emit_spin_complete(t) ==
    /\ pc[t] = "emit_spin_complete"
    /\ spin_complete' = [spin_complete EXCEPT ![t.n] = @ + 1]
    /\ winner_sent' = [winner_sent EXCEPT ![t.n].complete = loc[t].winner.id]
    /\ pc' = [pc EXCEPT ![t] = "dashboard_prizes"]
    /\ UNCHANGED <<wheel, wlock, file_lock, store, button_elapsed, loc,
                   spin_started, state_update, last_notice, observer>>

\* socketio.emit('state_update') (line 385); the task ends, and with it the
\* closure that held the winner.
emit_state_update(t) ==
    /\ pc[t] = "emit_state_update"
    /\ state_update' = state_update \cup {t.n}
    /\ winner_sent' = [winner_sent EXCEPT ![t.n] = NoneSent[t.n]]
    /\ pc' = [pc EXCEPT ![t] = "done"]
    /\ loc' = [loc EXCEPT ![t] = InitLoc]
    /\ UNCHANGED <<wheel, wlock, file_lock, store, button_elapsed,
                   spin_started, spin_complete, last_notice, observer>>

\* ------------------------------------------------------------ save_config
\* The values a request can carry under spin_duration_seconds.
DurationInputs == {IntVal(1), IntVal(0 - 1), StrVal, NullVal}

\* POST /api/config with the JSON object `data`: load the config (line 930).
save_config(t, data) ==
    /\ t = Admin
    /\ pc[t] = "idle"
    /\ loc' = [loc EXCEPT ![t] = [InitLoc EXCEPT !.req = data]]
    /\ pc' = [pc EXCEPT ![t] = "config_load"]
    /\ UNCHANGED <<wheel, wlock, file_lock, store, button_elapsed, events>>

\* allowed_keys (lines 933-942), by the keys of Config.
AllowedKeys == {"spin_duration_seconds", "volume", "modal_delay_ms"}
ConfigKeys == AllowedKeys \cup {"theme"}
Named(data) == {key \in AllowedKeys : data[key].ty # "absent"}

\* for key in allowed_keys: if key in data: config[key] = data[key]
\* (lines 945-947)
Merged(config, data) ==
    [key \in ConfigKeys |-> IF key \in Named(data) THEN data[key] ELSE config[key]]

\* int(x) takes a number, towards zero, and raises for None and for a
\* string that is not a numeral (StrVal, OtherStr).
CanInt(x) == x.ty \in {"int", "float"}
int(x) == x.v

\* The clamp without its upper limit.
Clamp_no_upper(lo, hi, x) == IntVal(IF lo > int(x) THEN lo ELSE int(x))

\* max(lo, min(hi, int(x)))
Clamp(lo, hi, x) ==
    LET least == IF hi < int(x) THEN hi ELSE int(x)
    IN IntVal(IF lo > least THEN lo ELSE least)

\* Lines 949-955: the range of volume and of modal_delay_ms, applied to the
\* key when the merged config has it.
Clamped(config) ==
    [config EXCEPT
        !.volume = IF @.ty = "absent" THEN @ ELSE Clamp(VOLUME_MIN, VOLUME_MAX, @),
        !.modal_delay_ms =
            IF @.ty = "absent" THEN @ ELSE Clamp(MODAL_DELAY_MIN, MODAL_DELAY_MAX, @)]
ClampRaises(config) ==
    \E key \in {"volume", "modal_delay_ms"} :
        config[key].ty # "absent" /\ ~CanInt(config[key])

\* Lines 945-962: the merge and the clamps, then save_json_file.  A config
\* that is no dict raises at the first key the request names, and int()
\* raises for a value that is no number: nothing is saved then.
save_config_merge(t) ==
    /\ pc[t] = "config_merge"
    /\ IF loc[t].cfg.st = "ok"
       THEN LET config == Merged(loc[t].cfg.doc, loc[t].req)
            IN IF ClampRaises(config)
               THEN /\ loc' = [loc EXCEPT ![t] = InitLoc]
                    /\ pc' = [pc EXCEPT ![t] = "idle"]
               ELSE /\ loc' = [loc EXCEPT ![t].cfg.doc = Clamped(config),
                                          ![t].f = "config", ![t].nested = FALSE]
                    /\ pc' = [pc EXCEPT ![t] = "save_json_file"]
       ELSE IF Named(loc[t].req) # {}
       THEN /\ loc' = [loc EXCEPT ![t] = InitLoc]
            /\ pc' = [pc EXCEPT ![t] = "idle"]
       ELSE /\ loc' = [loc EXCEPT ![t].f = "config", ![t].nested = FALSE]
            /\ pc' = [pc EXCEPT ![t] = "save_json_file"]
    /\ UNCHANGED <<wheel, wlock, file_lock, store, button_elapsed, events>>

\* -------------------------------------------------------- prize endpoints
\* isinstance(x, (int, float)) and x <= 0 (line 216); NaN is a float and
\* NaN <= 0 is False.
IsNumber(x) == x.ty \in {"int", "float", "nan"}
NonPositive(x) == x.ty = "int" /\ x.v <= 0

\* validate_prize_data accepting every weight.
validate_prize_data_any_weight(data) ==
    /\ data.name.ty # "absent"
    /\ data.weight.ty # "absent"
    /\ data.name.ty = "str" /\ data.name # BlankStr

\* validate_prize_data (lines 209-222), TRUE for (True, None): both fields
\* are there, the weight is a number and not <= 0, the name is a string
\* that is not blank.
validate_prize_data(data) ==
    /\ data.name.ty # "absent"
    /\ data.weight.ty # "absent"
    /\ IsNumber(data.weight) /\ ~NonPositive(data.weight)
    /\ data.name.ty = "str" /\ data.name # BlankStr

\* data['name'].strip() and float(data['weight']) of a valid payload, as
\* the fields of a prize.
NameOf(x) == IF x = StrVal THEN "A" ELSE "B"
WeightOf(x) == IF x.ty = "nan" THEN 0 ELSE x.v

\* The ids uuid.uuid4() can return.
Uuids == {"u1", "u2"}

\* The ids of a prize list, and the index of the first prize with an id
\* (0 for None).
Ids(prizes) == {prizes[i].id : i \in 1..Len(prizes)}
prize_index(prizes, prize_id) ==
    IF prize_id \in Ids(prizes)
    THEN CHOOSE i \in 1..Len(prizes) :
            prizes[i].id = prize_id /\ \A j \in 1..(i - 1) : prizes[j].id # prize_id
    ELSE 0

\* A stored prize as the dict validate_prize_data is given, and
\* {**prizes[prize_index], **data} (line 872).
AsData(p) == [name |-> StrVal, weight |-> IF p.nan THEN NaNVal ELSE IntVal(p.weight)]
Overlay(p, data) ==
    [name |-> IF data.name.ty = "absent" THEN AsData(p).name ELSE data.name,
     weight |-> IF data.weight.ty = "absent" THEN AsData(p).weight ELSE data.weight]

\* Lines 877-888: the prize with the fields the payload names.
Updated(p, data) ==
    [p EXCEPT !.name = IF data.name.ty = "absent" THEN @ ELSE NameOf(data.name),
              !.weight = IF data.weight.ty = "absent" THEN @ ELSE WeightOf(data.weight),
              !.nan = IF data.weight.ty = "absent" THEN @ ELSE data.weight.ty = "nan"]

\* POST /api/prizes with the JSON object `data`: validation first (lines
\* 823-826), then the load.  Requests are taken while the list is short of
\* MaxPrizes.
add_prize(t, data) ==
    /\ t \in Admins
    /\ pc[t] = "idle"
    /\ Len(disk.prizes.doc) < MaxPrizes
    /\ pc' = [pc EXCEPT ![t] = IF validate_prize_data(data) THEN "add_load" ELSE "http_400"]
    /\ loc' = [loc EXCEPT ![t] = [InitLoc EXCEPT !.preq = data]]
    /\ UNCHANGED <<wheel, wlock, file_lock, store, button_elapsed, events>>

\* Lines 830-847: an id that no loaded prize has, the new prize at the end
\* of the list, save_json_file.
add_append(t) ==
    /\ pc[t] = "add_append"
    /\ \E new_id \in Uuids \ Ids(loc[t].prizes) :
          loc' = [loc EXCEPT
                     ![t].prizes = Append(@, [id |-> new_id,
                                              name |-> NameOf(loc[t].preq.name),
                                              weight |-> WeightOf(loc[t].preq.weight),
                                              nan |-> loc[t].preq.weight.ty = "nan",
                                              enabled |-> TRUE, empty |-> FALSE]),
                     ![t].f = "prizes", ![t].nested = FALSE]
    /\ pc' = [pc EXCEPT ![t] = "save_json_file"]
    /\ UNCHANGED <<wheel, wlock, file_lock, store, button_elapsed, events>>

\* PUT /api/prizes/<prize_id> with the JSON object `data`: the load
\* (line 864).
update_prize(t, prize_id, data) ==
    /\ t \in Admins
    /\ pc[t] = "idle"
    /\ pc' = [pc EXCEPT ![t] = "update_load"]
    /\ loc' = [loc EXCEPT ![t] = [InitLoc EXCEPT !.prize_id = prize_id, !.preq = data]]
    /\ UNCHANGED <<wheel, wlock, file_lock, store, button_elapsed, events>>

\* Lines 866-890: 404 for an id no loaded prize has; 400 when the payload
\* names name or weight and the stored prize overlaid with it is invalid;
\* otherwise the prize is updated and the list saved.
update_find(t) ==
    /\ pc[t] = "update_find"
    /\ LET i == prize_index(loc[t].prizes, loc[t].prize_id)
           data == loc[t].preq
       IN IF i = 0
          THEN /\ pc' = [pc EXCEPT ![t] = "http_404"]
               /\ UNCHANGED loc
          ELSE IF /\ data.name.ty # "absent" \/ data.weight.ty # "absent"
                  /\ ~validate_prize_data(Overlay(loc[t].prizes[i], data))
          THEN /\ pc' = [pc EXCEPT ![t] = "http_400"]
               /\ UNCHANGED loc
          ELSE /\ pc' = [pc EXCEPT ![t] = "save_json_file"]
               /\ loc' = [loc EXCEPT ![t].prizes[i] = Updated(@, data),
                                      ![t].f = "prizes", ![t].nested = FALSE]
    /\ UNCHANGED <<wheel, wlock, file_lock, store, button_elapsed, events>>

\* DELETE /api/prizes/<prize_id>: the load (line 906).
delete_prize(t, prize_id) ==
    /\ t \in Admins
    /\ pc[t] = "idle"
    /\ pc' = [pc EXCEPT ![t] = "delete_load"]
    /\ loc' = [loc EXCEPT ![t] = [InitLoc EXCEPT !.prize_id = prize_id]]
    /\ UNCHANGED <<wheel, wlock, file_lock, store, button_elapsed, events>>

\* Lines 908-913: 404 for an id no loaded prize has, otherwise the prize is
\* popped and the list saved.
delete_find(t) ==
    /\ pc[t] = "delete_find"
    /\ LET i == prize_index(loc[t].prizes, loc[t].prize_id)
       IN IF i = 0
          THEN /\ pc' = [pc EXCEPT ![t] = "http_404"]
               /\ UNCHANGED loc
          ELSE /\ pc' = [pc EXCEPT ![t] = "save_json_file"]
               /\ loc' = [loc EXCEPT
                              ![t].prizes = SubSeq(@, 1, i - 1) \o SubSeq(@, i + 1, Len(@)),
                              ![t].f = "prizes", ![t].nested = FALSE]
    /\ UNCHANGED <<wheel, wlock, file_lock, store, button_elapsed, events>>

\* DELETE /api/stats: the load of the history (line 1091).
clear_stats(t) ==
    /\ t \in Admins
    /\ pc[t] = "idle"
    /\ pc' = [pc EXCEPT ![t] = "clear_load"]
    /\ loc' = [loc EXCEPT ![t] = InitLoc]
    /\ UNCHANGED <<wheel, wlock, file_lock, store, button_elapsed, events>>

\* Lines 1092-1097: a .bak copy of the file as it is now if the loaded
\* history is truthy, then save_json_file('history.json', []).
clear_stats_save(t) ==
    /\ pc[t] = "clear_backup"
    /\ backup' = IF loc[t].hist.st = "ok" /\ loc[t].hist.doc = <<>>
                 THEN backup ELSE create_backup("history")
    /\ loc' = [loc EXCEPT ![t].hist = File("ok", <<>>), ![t].f = "history",
                           ![t].nested = FALSE]
    /\ pc' = [pc EXCEPT ![t] = "save_json_file"]
    /\ UNCHANGED <<wheel, wlock, file_lock, disk, tmp, faults, button_elapsed, events>>

\* The answer of a prize endpoint or of clear_stats is sent: the handler is
\* done.
HttpStatus == {"http_200", "http_400", "http_404", "http_500"}
http_response(t) ==
    /\ pc[t] \in HttpStatus
    /\ pc' = [pc EXCEPT ![t] = "idle"]
    /\ loc' = [loc EXCEPT ![t] = InitLoc]
    /\ UNCHANGED <<wheel, wlock, file_lock, store, button_elapsed, events>>

\* ----------------------------------------------------------- direct calls
\* The documents the direct caller saves: for each file a document of the
\* program's own make, one that is no list where the program keeps a list
\* (or no dict where it keeps a dict), one whose Python make json does not
\* keep, and one json cannot write.
ClientDocs(f) ==
    IF f = "prizes"
    THEN {PyDoc("json", File("ok", <<Prize("9", 1, TRUE)>>)),
          PyDoc("json", File("badshape", <<>>)),
          PyDoc("tuple", File("ok", <<Prize("9", 1, TRUE)>>)),
          PyDoc("set", File("badshape", <<>>))}
    ELSE IF f = "config"
    THEN {PyDoc("json", File("ok", ConfigDoc(IntVal(2)))),
          PyDoc("json", File("badshape", ConfigDoc(AbsentVal))),
          PyDoc("int_keys", File("ok", ConfigDoc(AbsentVal))),
          PyDoc("set", File("badshape", ConfigDoc(AbsentVal)))}
    ELSE {PyDoc("json", File("ok", <<[prize_id |-> "9", session_spin |-> 0]>>)),
          PyDoc("json", File("badshape", <<>>)),
          PyDoc("tuple", File("ok", <<>>)),
          PyDoc("set", File("badshape", <<>>))}

ClientLoadSite(f) ==
    CASE f = "prizes" -> "client_load_prizes"
      [] f = "config" -> "client_load_config"
      [] OTHER -> "client_load_history"

\* save_json_file(name, data)
client_save(t) ==
    /\ t = Client
    /\ pc[t] = "idle"
    /\ \E f \in Files : \E data \in ClientDocs(f) :
          loc' = [loc EXCEPT ![t] = [InitLoc EXCEPT !.f = f, !.site = "client_save",
                                                    !.data = data]]
    /\ pc' = [pc EXCEPT ![t] = "save_json_file"]
    /\ UNCHANGED <<wheel, wlock, file_lock, store, button_elapsed, events>>

\* load_json_file(name, default), on its own or right after the save of
\* the same name has returned.
client_load(t) ==
    /\ t = Client
    /\ pc[t] \in {"idle", "client_saved"}
    /\ IF pc[t] = "idle"
       THEN \E f \in Files :
               /\ loc' = [loc EXCEPT ![t] = [InitLoc EXCEPT !.f = f]]
               /\ pc' = [pc EXCEPT ![t] = ClientLoadSite(f)]
       ELSE /\ pc' = [pc EXCEPT ![t] = ClientLoadSite(loc[t].f)]
            /\ UNCHANGED loc
    /\ UNCHANGED <<wheel, wlock, file_lock, store, button_elapsed, events>>

\* wheel_state.start_spin()
client_start_spin(t) ==
    /\ t = Client
    /\ pc[t] = "idle"
    /\ total_spins_session < MaxSpins
    /\ pc' = [pc EXCEPT ![t] = "start_spin"]
    /\ loc' = [loc EXCEPT ![t] = InitLoc]
    /\ UNCHANGED <<wheel, wlock, file_lock, store, button_elapsed, events>>

\* wheel_state.end_spin(); the caller remembers what its previous end_spin
\* found.
client_end_spin(t) ==
    /\ t = Client
    /\ pc[t] = "idle"
    /\ pc' = [pc EXCEPT ![t] = "end_spin"]
    /\ loc' = [loc EXCEPT ![t] = [InitLoc EXCEPT !.prev = loc[t].prev]]
    /\ UNCHANGED <<wheel, wlock, file_lock, store, button_elapsed, events>>

\* The caller is done with the result of its call.
client_return(t) ==
    /\ t = Client
    /\ pc[t] \in {"accepted", "rejected", "client_loaded"}
    /\ pc' = [pc EXCEPT ![t] = "idle"]
    /\ loc' = [loc EXCEPT ![t] = InitLoc]
    /\ UNCHANGED <<wheel, wlock, file_lock, store, button_elapsed, events>>

\* ------------------------------------------------------------------- time
Sleeping(t) == pc[t] = "sleeping" /\ loc[t].sleep_left > 0

\* A background task whose end_spin has returned (line 366) less than a
\* second ago: complete_spin is at its broadcasts.
TaskReleased == {"emit_spin_complete", "dashboard_prizes", "dashboard_history",
                 "emit_state_update"}
JustReleased(t) == t.k = "task" /\ pc[t] \in TaskReleased /\ loc[t].waited = 0

\* One second passes: it is taken off every running time.sleep and added to
\* the time since the last button press and since the end_spin of a task.
\* Time is tracked only where the program waits for it.
Tick ==
    /\ (\E t \in Tasks : Sleeping(t)) \/ button_elapsed < BUTTON_DEBOUNCE_TIME
    /\ loc' = [t \in Threads |->
                  IF Sleeping(t) THEN [loc[t] EXCEPT !.sleep_left = @ - 1]
                  ELSE IF JustReleased(t) THEN [loc[t] EXCEPT !.waited = 1]
                  ELSE loc[t]]
    /\ button_elapsed' =
          IF button_elapsed < BUTTON_DEBOUNCE_TIME THEN button_elapsed + 1 ELSE button_elapsed
    /\ UNCHANGED <<wheel, wlock, file_lock, store, pc, events>>

\* ------------------------------------------------------ crash and restart
\* WheelState.__init__ (lines 63-77): is_spinning, total_spins_session,
\* spin_start_time, last_spin_source, last_winner of a new process.
WheelState_init_spinning ==
    [is_spinning |-> TRUE, total_spins_session |-> 0, spin_start_time |-> "None",
     last_spin_source |-> "None", last_winner |-> "None", connected_clients |-> {}]
WheelState_init ==
    [is_spinning |-> FALSE, total_spins_session |-> 0, spin_start_time |-> "None",
     last_spin_source |-> "None", last_winner |-> "None", connected_clients |-> {}]

\* The process dies, whatever its threads are doing, and is started again:
\* the module is loaded (wheel_state = WheelState(), file_lock =
\* threading.Lock(), button_last_press = 0) and the main thread enters
\* initialize_default_files.  The files, the .tmp files and the .bak files
\* stay as they are; the events of the dead process are gone with its
\* clients; no request is served before socketio.run.  A crash counts as a
\* fault.
crash_restart ==
    /\ pc[Main] = "idle"
    /\ faults < MaxFaults
    /\ faults' = faults + 1
    /\ is_spinning' = WheelState_init.is_spinning
    /\ total_spins_session' = WheelState_init.total_spins_session
    /\ spin_start_time' = WheelState_init.spin_start_time
    /\ last_spin_source' = WheelState_init.last_spin_source
    /\ last_winner' = WheelState_init.last_winner
    /\ connected_clients' = WheelState_init.connected_clients
    /\ wlock' = NoThread
    /\ file_lock' = NoThread
    /\ button_elapsed' = BUTTON_DEBOUNCE_TIME
    /\ pc' = [t \in Threads |-> IF t = Main THEN "init_config"
                                ELSE IF t.k = "task" THEN "none" ELSE "down"]
    /\ loc' = [t \in Threads |-> InitLoc]
    /\ spin_started' = {}
    /\ spin_complete' = [n \in 1..MaxSpins |-> 0]
    /\ state_update' = {}
    /\ last_notice' = NoNotice
    /\ winner_sent' = NoneSent
    /\ observer' = NoRequest
    /\ UNCHANGED <<disk, tmp, backup>>

\* socketio.run(app, ...) (line 1560): requests are served.
socketio_run ==
    /\ pc[Main] = "socketio_run"
    /\ pc' = [t \in Threads |-> IF pc[t] \in {"down", "socketio_run"} THEN "idle" ELSE pc[t]]
    /\ UNCHANGED <<wheel, wlock, file_lock, store, button_elapsed, loc, events>>

\* ---------------------------------------------------------- specification
\* The documents found on disk when the process starts.  The prize list has
\* an enabled prize without weight, an enabled weighted prize and a disabled
\* one.
StartPrizes == <<Prize("1", 0, TRUE), Prize("2", 2, TRUE), Prize("3", 1, FALSE)>>

InitPrizes == {File("ok", StartPrizes), File("ok", <<Prize("3", 1, FALSE)>>),
               File("ok", <<EmptyDict>>), File("missing", <<>>), File("malformed", <<>>)}

InitConfig == {File("ok", ConfigDoc(d)) : d \in {IntVal(1), AbsentVal}}
              \cup {File("badshape", ConfigDoc(AbsentVal)), NoFile("config")}

InitHistory == {File("ok", <<>>), File("badshape", <<>>), File("malformed", <<>>),
                NoFile("history")}

\* The state of a fresh process on the documents p, c, h.
InitOn(p, c, h) ==
    /\ is_spinning = FALSE
    /\ total_spins_session = 0
    /\ spin_start_time = "None"
    /\ last_spin_source = "None"
    /\ last_winner = "None"
    /\ connected_clients = {}
    /\ wlock = NoThread
    /\ file_lock = NoThread
    /\ disk = [prizes |-> p, config |-> c, history |-> h]
    /\ tmp = [f \in Files |-> NoFile(f)]
    /\ backup = [f \in Files |-> NoFile(f)]
    /\ button_elapsed = BUTTON_DEBOUNCE_TIME
    /\ faults = 0
    /\ pc = [t \in Threads |-> IF t.k = "task" THEN "none" ELSE "idle"]
    /\ loc = [t \in Threads |-> InitLoc]
    /\ spin_started = {}
    /\ spin_complete = [n \in 1..MaxSpins |-> 0]
    /\ state_update = {}
    /\ last_notice = NoNotice
    /\ winner_sent = NoneSent
    /\ observer = NoRequest

Init == \E p \in InitPrizes, c \in InitConfig, h \in InitHistory : InitOn(p, c, h)

\* One step of trigger_spin_flow.
Flow(t) ==
    \/ start_spin(t)
    \/ start_spin_count(t)
    \/ start_spin_time(t)
    \/ spin_rejected(t)
    \/ spin_accepted(t)
    \/ select_winner(t)
    \/ select_winner_return(t)
    \/ append_history(t)
    \/ commit_winner(t)
    \/ emit_spin_started(t)

\* One step of a background task.
Background(t) ==
    \/ background_task(t)
    \/ complete_spin(t)
    \/ emit_spin_complete(t)
    \/ emit_state_update(t)

\* One step inside the store or inside end_spin, by whichever thread is there.
Shared(t) ==
    \/ load_json_file(t)
    \/ save_json_file(t)
    \/ save_json_file_replace(t)
    \/ end_spin(t)
    \/ end_spin_time(t)

\* The three input adapters racing, on a filesystem that raises no I/O error.
Next ==
    \/ handle_web_spin_request(Web)
    \/ trigger_spin_api(Api)
    \/ trigger_spin_api_busy(Api)
    \/ trigger_spin_api_success(Api)
    \/ gpio_button_callback(Gpio)
    \/ \E t \in Callers : Flow(t)
    \/ \E t \in Tasks : Background(t)
    \/ \E t \in Threads : Shared(t)
    \/ Tick

Spec == Init /\ [][Next]_vars

\* One spin source and the configuration endpoint.
NextConfig ==
    \/ handle_web_spin_request(Web)
    \/ Flow(Web)
    \/ \E d \in DurationInputs : save_config(Admin, ConfigDoc(d))
    \/ save_config_merge(Admin)
    \/ \E t \in Tasks : Background(t)
    \/ \E t \in Threads : Shared(t)
    \/ Tick

SpecConfig == Init /\ [][NextConfig]_vars

\* Two spin sources on a filesystem that can raise I/O errors.
NextIO ==
    \/ handle_web_spin_request(Web)
    \/ trigger_spin_api(Api)
    \/ trigger_spin_api_busy(Api)
    \/ trigger_spin_api_success(Api)
    \/ \E t \in {Web, Api} : Flow(t)
    \/ \E t \in Tasks : Background(t)
    \/ \E t \in Threads : Shared(t)
    \/ \E t \in Threads : load_json_file_ioerror(t)
    \/ \E t \in Threads : save_json_file_ioerror(t)
    \/ Tick

SpecIO == Init /\ [][NextIO]_vars

\* The spin transactions of one source, up to spin_started or the abort, on
\* every list of up to MaxPrizes prizes with the weights of PrizeWeights,
\* enabled or not.
PrizeWeights == {0, 1, 2}
PrizeId(i) == CASE i = 1 -> "1" [] i = 2 -> "2" [] i = 3 -> "3" [] OTHER -> "4"
PrizeLists ==
    UNION {{[i \in 1..n |-> Prize(PrizeId(i), w[i], en[i])] :
               w \in [1..n -> PrizeWeights], en \in [1..n -> BOOLEAN]} : n \in 1..MaxPrizes}

InitSelector ==
    \E ps \in PrizeLists :
        InitOn(File("ok", ps), File("ok", ConfigDoc(IntVal(1))), File("ok", <<>>))

NextSelector ==
    \/ handle_web_spin_request(Web)
    \/ Flow(Web)
    \/ Shared(Web)

SpecSelector == InitSelector /\ [][NextSelector]_vars

\* Two spin sources and write errors, on a history left by an earlier
\* session of n spins, newest first.
OldHistory(n) == [i \in 1..n |-> [prize_id |-> "old", session_spin |-> n - i + 1]]
HistoryLengths == {0, HistoryCap - 2, HistoryCap - 1, HistoryCap}

InitHistoryFull ==
    \E n \in HistoryLengths :
        InitOn(File("ok", StartPrizes), File("ok", ConfigDoc(IntVal(1))),
               File("ok", OldHistory(n)))

SpecHistory == InitHistoryFull /\ [][NextIO]_vars

\* The WheelState methods and the store functions called one at a time by a
\* single thread, on a filesystem that can raise I/O errors on writes.
NextUnit ==
    \/ client_save(Client)
    \/ client_load(Client)
    \/ client_start_spin(Client)
    \/ client_end_spin(Client)
    \/ client_return(Client)
    \/ start_spin(Client)
    \/ start_spin_count(Client)
    \/ start_spin_time(Client)
    \/ end_spin(Client)
    \/ end_spin_time(Client)
    \/ load_json_file(Client)
    \/ save_json_file(Client)
    \/ save_json_file_ioerror(Client)
    \/ save_json_file_replace(Client)

SpecUnit == Init /\ [][NextUnit]_vars

\* The configuration endpoint alone, on a filesystem that can raise I/O
\* errors.  A request names any of the keys with an integer below, in or
\* above the range, a float, a string or null; the persisted config has
\* values in or out of the range and may hold the unknown key.
ConfigRequests ==
    {Config(d, v, m, x) :
        d \in {AbsentVal, IntVal(1)},
        v \in {AbsentVal, IntVal(0 - 5), IntVal(50), IntVal(150), FloatVal(99), StrVal},
        m \in {AbsentVal, IntVal(100), IntVal(3000), IntVal(99999), NullVal},
        x \in {AbsentVal, OtherStr}}

InitConfigAdmin ==
    {File("ok", Config(IntVal(1), v, m, x)) :
        v \in {AbsentVal, IntVal(75), IntVal(150)},
        m \in {AbsentVal, IntVal(3000)},
        x \in {AbsentVal, StrVal}}

InitAdmin ==
    \E c \in InitConfigAdmin : InitOn(File("ok", StartPrizes), c, File("ok", <<>>))

NextAdmin ==
    \/ \E data \in ConfigRequests : save_config(Admin, data)
    \/ save_config_merge(Admin)
    \/ load_json_file(Admin)
    \/ load_json_file_ioerror(Admin)
    \/ save_json_file(Admin)
    \/ save_json_file_ioerror(Admin)
    \/ save_json_file_replace(Admin)

SpecAdmin == InitAdmin /\ [][NextAdmin]_vars

\* The prize endpoints on the default prize document.

\* A payload by its name and its weight.  For POST: two valid ones, and one
\* without name, without weight, with a weight that is no number, with a
\* weight of 0, with a blank name.  For PUT: the empty one, three that name
\* a valid field, and one with a negative weight, with a weight that is no
\* number, with a blank name.
Payload(n, w) == [name |-> n, weight |-> w]
AddPayloads ==
    {Payload(StrVal, IntVal(3)), Payload(StrVal, NaNVal),
     Payload(AbsentVal, IntVal(3)), Payload(StrVal, AbsentVal), Payload(StrVal, OtherStr),
     Payload(StrVal, IntVal(0)), Payload(BlankStr, IntVal(3))}
UpdatePayloads ==
    {Payload(AbsentVal, AbsentVal), Payload(AbsentVal, IntVal(3)), Payload(AbsentVal, NaNVal),
     Payload(StrVal, AbsentVal),
     Payload(AbsentVal, IntVal(0 - 1)), Payload(AbsentVal, OtherStr),
     Payload(BlankStr, AbsentVal)}
\* The ids requests name: one of a default prize and one no prize has.
RequestIds == {"1", "9"}

InitPrizeAdmin ==
    InitOn(File("ok", DefaultPrizes), File("ok", ConfigDoc(IntVal(1))), File("ok", <<>>))

\* The default document, or one whose first prize was given a weight of 0 by
\* hand.
InitPrizeAdminIO ==
    \E ps \in {DefaultPrizes, StartPrizes} :
        InitOn(File("ok", ps), File("ok", ConfigDoc(IntVal(1))), File("ok", <<>>))

\* One step of a prize endpoint, for requests with the payloads `adds` and
\* `updates` and the ids `ids`.
PrizeEndpoint(t, adds, updates, ids) ==
    \/ \E data \in adds : add_prize(t, data)
    \/ add_append(t)
    \/ \E prize_id \in ids, data \in updates : update_prize(t, prize_id, data)
    \/ update_find(t)
    \/ \E prize_id \in ids : delete_prize(t, prize_id)
    \/ delete_find(t)
    \/ http_response(t)

\* Two handlers at a time, on a filesystem that raises no I/O error; the
\* requests are the ones that write: a POST with a weight of 3 or NaN, a PUT
\* of a weight of 3 and a DELETE for prize 1.
NextPrizes ==
    \/ \E t \in Admins :
          PrizeEndpoint(t, {Payload(StrVal, IntVal(3)), Payload(StrVal, NaNVal)},
                        {Payload(AbsentVal, IntVal(3))}, {"1"})
    \/ \E t \in Admins : load_json_file(t)
    \/ \E t \in Admins : save_json_file(t)
    \/ \E t \in Admins : save_json_file_replace(t)

SpecPrizes == InitPrizeAdmin /\ [][NextPrizes]_vars

\* One handler at a time, on a filesystem that can raise I/O errors.
NextPrizesIO ==
    \/ PrizeEndpoint(Admin, AddPayloads, UpdatePayloads, RequestIds)
    \/ load_json_file(Admin)
    \/ load_json_file_ioerror(Admin)
    \/ save_json_file(Admin)
    \/ save_json_file_ioerror(Admin)
    \/ save_json_file_replace(Admin)

SpecPrizesIO == InitPrizeAdminIO /\ [][NextPrizesIO]_vars

\* One spin source and the clear-history endpoint, on an empty history and on
\* one that holds the record of an earlier session.
InitClear ==
    \E h \in {<<>>, <<[prize_id |-> "2", session_spin |-> 1]>>} :
        InitOn(File("ok", StartPrizes), File("ok", ConfigDoc(IntVal(1))), File("ok", h))

NextClear ==
    \/ handle_web_spin_request(Web)
    \/ Flow(Web)
    \/ clear_stats(Admin)
    \/ clear_stats_save(Admin)
    \/ http_response(Admin)
    \/ \E t \in Tasks : Background(t)
    \/ \E t \in Threads : Shared(t)
    \/ Tick

SpecClear == InitClear /\ [][NextClear]_vars

\* One spin source and the observers: clients that connect and disconnect,
\* and status queries.
NextObserve ==
    \/ handle_web_spin_request(Web)
    \/ Flow(Web)
    \/ Observe(Observer)
    \/ \E t \in Tasks : Background(t)
    \/ \E t \in Threads : Shared(t)
    \/ Tick

SpecObserve == Init /\ [][NextObserve]_vars

\* One spin source, and a process that can crash at any point and is started
\* again, on each history document a process can find.
InitCrash ==
    \E h \in InitHistory :
        InitOn(File("ok", StartPrizes), File("ok", ConfigDoc(IntVal(1))), h)

NextCrash ==
    \/ handle_web_spin_request(Web)
    \/ Flow(Web)
    \/ \E t \in Tasks : Background(t)
    \/ \E t \in Threads : Shared(t)
    \/ Tick
    \/ crash_restart
    \/ socketio_run

SpecCrash == InitCrash /\ [][NextCrash]_vars

\* The spin with number n waits for its completion action: spin_started was
\* emitted and the background task has not yet called complete_spin.
InWait(n) == n \in spin_started /\ pc[Task(n)] \in {"background_task", "sleeping"}
Waiting == \E n \in 1..MaxSpins : InWait(n)

\* Two enabled prizes of weight 1.
InitEdit ==
    InitOn(File("ok", <<Prize("1", 1, TRUE), Prize("2", 1, TRUE)>>),
           File("ok", ConfigDoc(IntVal(1))), File("ok", <<>>))

\* One spin source, and an admin who, while a spin waits for its completion,
\* sends requests that delete a prize and save the configuration.
NextEdit ==
    \/ handle_web_spin_request(Web)
    \/ Flow(Web)
    \/ \E t \in Tasks : Background(t)
    \/ Waiting /\ delete_prize(Admin, "1")
    \/ delete_find(Admin)
    \/ http_response(Admin)
    \/ Waiting /\ save_config(Admin, Config(IntVal(1), AbsentVal, IntVal(100), AbsentVal))
    \/ save_config_merge(Admin)
    \/ \E t \in Threads : Shared(t)
    \/ Tick

SpecEdit == InitEdit /\ [][NextEdit]_vars

TypeOK ==
    /\ is_spinning \in BOOLEAN
    /\ total_spins_session \in 0..MaxSpins
    /\ faults \in 0..MaxFaults

\* ================================================================ claims
\* The spin transactions in flight: a handler from the moment its start_spin
\* has set is_spinning until it hands the spin to its background task or its
\* end_spin has cleared is_spinning; a background task until its end_spin has
\* cleared is_spinning.
HandlerHolds == {"start_spin_count", "start_spin_time", "accepted", "load_prizes",
                 "load_config", "select", "calculate_winner", "load_history", "append", "save_json_file",
                 "save_replace", "commit", "emit_spin_started", "end_spin"}
TaskHolds == {"background_task", "sleeping", "raised", "end_spin"}
InFlight == {t \in Callers : pc[t] \in HandlerHolds} \cup {t \in Tasks : pc[t] \in TaskHolds}

\* C1: in every reachable state at most one spin transaction is in flight,
\* whatever the interleaving of the socket handler, the REST endpoint and the
\* hardware callback.
C1_AtMostOneSpinInFlight == Cardinality(InFlight) <= 1

\* A spin is in flight while another request has just been refused.
C1_Witness == Cardinality(InFlight) = 1 /\ \E t \in Callers : pc[t] = "rejected"

\* C2: a start_spin call that finds the guard Idle is the one that moves it
\* to Spinning, and it counts exactly one spin and sets the timestamp; a call
\* that finds it Spinning returns False and changes no guard field; at no
\* time are two calls in the accepting branch.
C2_ExactlyOneAcquires ==
    [][/\ \A t \in Callers :
             /\ (pc[t] = "start_spin" /\ pc'[t] # "start_spin" /\ ~is_spinning) =>
                   (pc'[t] = "start_spin_count" /\ is_spinning')
             /\ (pc[t] = "start_spin" /\ pc'[t] # "start_spin" /\ is_spinning) =>
                   (/\ pc'[t] = "rejected"
                    /\ UNCHANGED <<is_spinning, total_spins_session, spin_start_time>>)
             /\ (pc[t] = "start_spin_count" /\ pc'[t] # pc[t]) =>
                   (/\ pc'[t] = "start_spin_time"
                    /\ total_spins_session' = total_spins_session + 1)
             /\ (pc[t] = "start_spin_time" /\ pc'[t] # pc[t]) =>
                   (pc'[t] = "accepted" /\ is_spinning' /\ spin_start_time' = "time")
       /\ Cardinality({t \in Callers : pc'[t] \in {"start_spin_count", "start_spin_time"}}) <= 1
      ]_vars

\* Two calls raced on the Idle guard of a fresh process: one is in the
\* accepting branch, the other is still waiting for the lock.
C2_Witness ==
    /\ total_spins_session = 0
    /\ \E t, u \in Callers : pc[t] = "start_spin_count" /\ pc[u] = "start_spin"

\* C3: the background task of an accepted spin does not end before it has
\* released the guard, whatever spin_duration_seconds a config update
\* persisted.
C3_AcceptedSpinReleasesGuard == \A t \in Tasks : pc[t] = "raised" => ~is_spinning

\* C4: a handler that acquired the guard leaves trigger_spin_flow either by
\* returning True after spin_started, or by returning False out of end_spin
\* with is_spinning = FALSE at that moment.
C4_AbortReleasesGuard ==
    [][\A t \in Callers :
          (pc[t] \in HandlerHolds \cup {"end_spin_time"} /\ pc'[t] = "idle") =>
             \/ pc[t] = "emit_spin_started"
             \/ pc[t] = "end_spin_time" /\ ~is_spinning'
      ]_vars

\* An exception inside the transaction was turned into an abort, and every
\* handler has returned.
C4_Witness ==
    /\ last_notice = Notice("spin_error", "server_error", FALSE)
    /\ total_spins_session > 0
    /\ ~is_spinning
    /\ \A t \in Callers : pc[t] = "idle"

\* C5: a request refused by start_spin returns False after emitting a
\* spin_rejected notice with reason wheel_busy and nothing else, and neither
\* of its steps changes the guard fields, last_winner, last_spin_source or a
\* persisted document.
C5_RejectedRequestHasNoEffect ==
    [][\A t \in Callers :
          /\ (pc[t] = "start_spin" /\ pc'[t] # "start_spin" /\ is_spinning) =>
                (pc'[t] = "rejected" /\ UNCHANGED <<wheel, disk, events>>)
          /\ (pc[t] = "rejected" /\ pc'[t] # "rejected") =>
                /\ pc'[t] = "idle"
                /\ last_notice'.ev = "spin_rejected"
                /\ last_notice'.reason = "wheel_busy"
                /\ UNCHANGED <<wheel, disk, spin_started, spin_complete, state_update>>
      ]_vars

\* A request was refused while a spin with a persisted record was in flight.
C5_Witness ==
    /\ last_notice.ev = "spin_rejected"
    /\ is_spinning
    /\ disk.history.st = "ok" /\ disk.history.doc # <<>>
    /\ \A t \in Callers : pc[t] = "idle"

\* C6: the spin_started of a later spin is never emitted before the
\* spin_complete of every earlier started spin.
C6_EventWindowsDoNotOverlap ==
    \A n, m \in spin_started : n < m => spin_complete[n] >= 1

\* C7: once spin_started of a spin has been emitted, the history document
\* holds the record of that spin or of a later one; and spin_complete is
\* only emitted for a spin whose spin_started was.
C7_RecordPersistedBeforeStarted ==
    /\ \A n \in spin_started :
          /\ disk.history.st = "ok"
          /\ \E i \in 1..Len(disk.history.doc) : disk.history.doc[i].session_spin >= n
    /\ \A n \in 1..MaxSpins : spin_complete[n] >= 1 => n \in spin_started

\* C8: no spin has more than one spin_complete, only a spin whose
\* spin_started was emitted has one, and a spin whose background task has
\* ended has exactly one.
C8_ExactlyOneSpinComplete ==
    \A n \in 1..MaxSpins :
        /\ spin_complete[n] <= 1
        /\ spin_complete[n] = 1 => n \in spin_started
        /\ pc[Task(n)] \in {"raised", "done"} => spin_complete[n] = 1

\* C9: no handler inside trigger_spin_flow waits for a lock that only the
\* handler itself can release.
C9_FlowNeverBlocksForever ==
    \A t \in Callers : ~(pc[t] = "save_json_file" /\ file_lock = t)

\* C10: the save_json_file call that load_json_file makes for a missing file
\* finds file_lock free, so that the default is written and returned.
C10_MissingFileIsBootstrapped ==
    \A t \in Threads :
        (pc[t] = "save_json_file" /\ loc[t].nested /\ disk[loc[t].f].st = "missing") =>
            file_lock = NoThread

\* C11: the recovery of a file that does not parse (or of a prizes.json
\* that holds no list) goes through: the save_json_file call that
\* load_json_file makes for it, after the backup, finds file_lock free, so
\* that the default is written and returned.
C11_CorruptionIsRecovered ==
    \A t \in Threads :
        (/\ pc[t] = "save_json_file"
         /\ loc[t].nested
         /\ disk[loc[t].f].st \in {"malformed", "badshape"}
         /\ backup[loc[t].f] = disk[loc[t].f]) => file_lock = NoThread

C13_FailedSaveLeavesFileUntouched ==
    [][\A t \in Threads :
          (pc[t] = "save_json_file" /\ pc'[t] \notin {"save_json_file", "save_replace"}) =>
             /\ disk' = disk
             /\ tmp'[loc[t].f] = NoFile(loc[t].f)
             /\ (t = Client => loc'[t].ret = "False")
      ]_vars

\* The write of a serializable document over an existing file failed.
C13_Witness ==
    /\ pc[Client] = "client_saved"
    /\ loc[Client].ret = "False"
    /\ Serializable(loc[Client].data)
    /\ disk[loc[Client].f].st = "ok"

\* C14: the history document never holds more than 100 records, and every
\* write of a spin's record puts that record first, keeps the records that
\* were there in their order behind it, and drops only what no longer fits
\* in 100.
C14_HistoryKeepsNewest100 ==
    /\ [](disk.history.st = "ok" => Len(disk.history.doc) <= HistoryCap)
    /\ [][\A t \in Callers :
             (pc[t] = "save_replace" /\ pc'[t] = "commit") =>
                LET old == disk.history.doc
                    new == disk'.history.doc
                IN /\ Len(new) = IF Len(old) < HistoryCap THEN Len(old) + 1 ELSE HistoryCap
                   /\ new[1] = [prize_id |-> loc[t].winner.id,
                                session_spin |-> total_spins_session]
                   /\ \A i \in 2..Len(new) : new[i] = old[i - 1]
        ]_vars

\* The candidates with a positive weight, in their order, and the sum of the
\* weights of the first i of them.
Positive(prizes) == SelectSeq(prizes, LAMBDA p : p.weight > 0)
RECURSIVE PrefixSum(_, _)
PrefixSum(ps, i) == IF i = 0 THEN 0 ELSE PrefixSum(ps, i - 1) + ps[i].weight
Reaching(ps, r) == {i \in 1..Len(ps) : PrefixSum(ps, i) >= r}

\* C15: when a candidate has a positive weight, calculate_winner returns the
\* first positive-weight candidate whose accumulated weight reaches the draw,
\* and the last positive-weight candidate when none does.
C15_WalkReturnsFirstReaching ==
    [][\A t \in Callers :
          (/\ pc[t] = "calculate_winner" /\ pc'[t] # "calculate_winner"
           /\ Positive(enabled_prizes(t)) # <<>>) =>
             LET valid == Positive(enabled_prizes(t))
                 hit == Reaching(valid, loc[t].rand_val)
             IN /\ pc'[t] = "load_history"
                /\ loc'[t].winner =
                      IF hit = {} THEN valid[Len(valid)]
                      ELSE valid[CHOOSE i \in hit : \A j \in hit : i <= j]
      ]_vars

\* The walk passed a first candidate of weight 1 and stopped at a second.
C15_Witness ==
    /\ pc[Web] = "load_history"
    /\ Len(Positive(enabled_prizes(Web))) = 3
    /\ Positive(enabled_prizes(Web))[1].weight = 1
    /\ loc[Web].winner = Positive(enabled_prizes(Web))[2]

\* C16: on a non-empty candidate list without a positive weight,
\* calculate_winner returns one of the candidates it was given and the flow
\* goes on with it.
C16_NoWeightFallsBackToMember ==
    [][\A t \in Callers :
          (/\ pc[t] = "calculate_winner" /\ pc'[t] # "calculate_winner"
           /\ Positive(enabled_prizes(t)) = <<>>) =>
             /\ pc'[t] = "load_history"
             /\ \E i \in 1..Len(enabled_prizes(t)) : loc'[t].winner = enabled_prizes(t)[i]
      ]_vars

\* The second of two weightless candidates was returned.
C16_Witness ==
    /\ pc[Web] = "load_history"
    /\ Len(enabled_prizes(Web)) >= 2
    /\ loc[Web].winner.weight = 0
    /\ loc[Web].winner = enabled_prizes(Web)[2]

\* A handler between the selection and spin_started: at one of the steps
\* that follow it, or inside a save of history.json.
Selected(t) ==
    \/ pc[t] \in {"load_history", "append", "commit", "emit_spin_started"}
    \/ pc[t] \in {"save_json_file", "save_replace"} /\ loc[t].f = "history"

\* C17: the winner a handler carries from the selection to spin_started is a
\* prize of the loaded list with enabled = TRUE, and it is the only enabled
\* prize if that has a positive weight.
C17_WinnerIsEnabled ==
    \A t \in Callers :
        Selected(t) =>
            LET on == {i \in 1..Len(loc[t].prizes) : loc[t].prizes[i].enabled = TRUE}
            IN /\ \E i \in on : loc[t].winner = loc[t].prizes[i]
               /\ \A i \in on :
                     (on = {i} /\ loc[t].prizes[i].weight > 0) =>
                         loc[t].winner = loc[t].prizes[i]

\* spin_started is about to go out for a list whose first prize is disabled
\* with the largest weight and whose only enabled prize is the last.
C17_Witness ==
    /\ pc[Web] = "emit_spin_started"
    /\ Len(loc[Web].prizes) = 3
    /\ ~loc[Web].prizes[1].enabled /\ loc[Web].prizes[1].weight = 2
    /\ ~loc[Web].prizes[2].enabled
    /\ loc[Web].prizes[3].enabled /\ loc[Web].prizes[3].weight = 1
    /\ loc[Web].winner = loc[Web].prizes[3]

\* A handler on the abort for want of an enabled prize.
NoEnabledPrize(t) ==
    /\ pc[t] \in {"select", "end_spin", "end_spin_time"}
    /\ \A i \in 1..Len(loc[t].prizes) : ~loc[t].prizes[i].enabled

\* C18: a handler that holds the guard and finds no enabled prize emits a
\* spin_error notice, calls end_spin and returns False with the guard Idle;
\* none of its steps writes a document or emits spin_started.
C18_NoEnabledPrizeAborts ==
    [][\A t \in Callers :
          (NoEnabledPrize(t) /\ pc'[t] # pc[t]) =>
             /\ pc[t] = "select" =>
                   (pc'[t] = "end_spin" /\ last_notice' = Notice("spin_error", "no_prizes", FALSE))
             /\ pc[t] = "end_spin" => pc'[t] = "end_spin_time"
             /\ pc[t] = "end_spin_time" => (pc'[t] = "idle" /\ ~is_spinning')
             /\ UNCHANGED <<disk, tmp, spin_started>>
      ]_vars

\* Every spin of the session was aborted for want of an enabled prize.
C18_Witness ==
    /\ last_notice = Notice("spin_error", "no_prizes", FALSE)
    /\ total_spins_session = MaxSpins
    /\ ~is_spinning
    /\ spin_started = {}
    /\ disk.history = File("ok", <<>>)
    /\ \A t \in Callers : pc[t] = "idle"

\* C19: every end_spin call leaves is_spinning FALSE and spin_start_time
\* None and returns; one that finds the guard Idle changes no field of it.
C19_EndSpinIsIdempotent ==
    [][\A t \in Threads :
          /\ (pc[t] = "end_spin" /\ pc'[t] # "end_spin") =>
                /\ pc'[t] = "end_spin_time"
                /\ ~is_spinning'
                /\ ~is_spinning => UNCHANGED wheel
          /\ (pc[t] = "end_spin_time" /\ pc'[t] # "end_spin_time") =>
                /\ pc'[t] = AfterEndSpin(t)
                /\ ~is_spinning' /\ spin_start_time' = "None"
                /\ ~loc[t].logged => UNCHANGED wheel
      ]_vars

\* A second end_spin in a row: the first found the guard Spinning, this one
\* finds it Idle.
C19_Witness ==
    /\ pc[Client] = "end_spin_time"
    /\ loc[Client].prev = "released"
    /\ ~loc[Client].logged

C21_ApiAnswersItsOwnSpin ==
    [][/\ (pc[Api] = "api_success" /\ pc'[Api] # "api_success") =>
             api_success_payload.spin_number = loc[Api].spin_number
       /\ (pc[Api] = "idle" /\ pc'[Api] # "idle" /\ is_spinning) =>
             (pc'[Api] = "api_busy" /\ UNCHANGED wheel)
       /\ (pc[Api] = "start_spin" /\ pc'[Api] # "start_spin" /\ is_spinning) =>
             (pc'[Api] = "rejected" /\ UNCHANGED wheel)
      ]_vars

\* The range of a clamped key, by its limits.
InRange(lo, hi, x) == x.ty = "int" /\ lo <= x.v /\ x.v <= hi
Nearest(lo, hi, i) == IF i < lo THEN lo ELSE IF i > hi THEN hi ELSE i

\* C22: every config document that save_config puts in place has an integer
\* volume within 0..100 and an integer modal_delay_ms within 500..10000
\* where it has the key, and for a key the request names with an integer it
\* is the value of the range nearest to that integer.
C22_ConfigIsClamped ==
    [][(pc[Admin] = "save_replace" /\ pc'[Admin] # "save_replace") =>
          LET new == disk'.config.doc
              req == loc[Admin].req
          IN /\ new.volume.ty # "absent" => InRange(0, 100, new.volume)
             /\ new.modal_delay_ms.ty # "absent" => InRange(500, 10000, new.modal_delay_ms)
             /\ req.volume.ty = "int" => new.volume = IntVal(Nearest(0, 100, req.volume.v))
             /\ req.modal_delay_ms.ty = "int" =>
                   new.modal_delay_ms = IntVal(Nearest(500, 10000, req.modal_delay_ms.v))
      ]_vars

\* A request for modal_delay_ms 99999 and volume 150 was stored as 10000 and
\* 100.
C22_Witness ==
    /\ pc[Admin] = "idle"
    /\ disk.config.doc.modal_delay_ms = IntVal(10000)
    /\ disk.config.doc.volume = IntVal(100)
    /\ tmp.config = NoFile("config")

\* C23: a config document that save_config puts in place differs from the
\* one it replaces only in the allowed keys the request names and in the
\* clamped keys brought into their range: the key the program does not know
\* keeps its persisted value, whatever the request says of it.
C23_OnlyNamedAllowedKeysWritten ==
    [][(pc[Admin] = "save_replace" /\ pc'[Admin] # "save_replace") =>
          LET old == disk.config.doc
              new == disk'.config.doc
              req == loc[Admin].req
          IN /\ new.theme = old.theme
             /\ \A key \in AllowedKeys :
                   req[key].ty = "absent" =>
                      \/ new[key] = old[key]
                      \/ /\ key = "volume" /\ old[key].ty = "int"
                         /\ new[key] = IntVal(Nearest(0, 100, old[key].v))
                      \/ /\ key = "modal_delay_ms" /\ old[key].ty = "int"
                         /\ new[key] = IntVal(Nearest(500, 10000, old[key].v))
      ]_vars

\* A payload without name or weight, with a weight that is no number or is
\* not positive, or with a blank name.
BadWeight(x) == x.ty \notin {"int", "float", "nan"} \/ (x.ty = "int" /\ x.v <= 0)
BadName(x) == x.ty # "str" \/ x = BlankStr
InvalidPayload(data) ==
    \/ data.name.ty = "absent" \/ data.weight.ty = "absent"
    \/ BadWeight(data.weight) \/ BadName(data.name)

\* The name and the weight a stored prize has once the payload is laid over
\* it, as JSON values.
Effective(p, data) ==
    [name |-> IF data.name.ty = "absent" THEN StrVal ELSE data.name,
     weight |-> IF data.weight.ty # "absent" THEN data.weight
                ELSE IF p.nan THEN NaNVal ELSE IntVal(p.weight)]

\* The steps of a prize endpoint that do not depend on the payload of PUT:
\* a POST with an invalid payload goes to the 400 answer, a PUT or DELETE
\* for an id that no loaded prize has goes to the 404 answer, and neither
\* these steps, nor the load before them, nor the answer change a file.
RejectsWithoutWriting(t) ==
    /\ (pc[t] = "idle" /\ pc'[t] \in {"add_load", "http_400"}
                        /\ InvalidPayload(loc'[t].preq)) =>
          (pc'[t] = "http_400" /\ disk' = disk)
    /\ (pc[t] \in {"update_find", "delete_find"} /\ pc'[t] # pc[t]
                        /\ \A i \in 1..Len(loc[t].prizes) :
                               loc[t].prizes[i].id # loc[t].prize_id) =>
          (pc'[t] = "http_404" /\ disk' = disk)
    /\ (pc[t] \in PrizeSites \cup {"http_400", "http_404"} /\ pc'[t] # pc[t]) =>
          disk' = disk
    /\ (pc[t] \in {"http_400", "http_404"} /\ pc'[t] # pc[t]) => pc'[t] = "idle"

C25_IdsDistinctWeightsPositive ==
    disk.prizes.st = "ok" =>
        LET prizes == disk.prizes.doc
        IN /\ \A i, j \in 1..Len(prizes) : prizes[i].id = prizes[j].id => i = j
           /\ \A i \in 1..Len(prizes) : ~prizes[i].nan /\ prizes[i].weight > 0

\* C26: from the crash until the restarted process serves requests, the
\* guard is Idle and the session counter is 0, and neither the crash nor the
\* startup changes a history document that holds records.
C26_RestartResetsGuardKeepsHistory ==
    [][(pc[Main] # "idle" \/ pc'[Main] # "idle") =>
          /\ is_spinning' = FALSE
          /\ total_spins_session' = 0
          /\ wlock' = NoThread
          /\ disk.history.st = "ok" => disk'.history = disk.history
      ]_vars

\* The restarted process serves requests; the crash came while a spin was
\* appending its record (the temp file was written and not yet moved), and
\* the record of the spin before is in the history.
C26_Witness ==
    /\ faults > 0
    /\ pc[Main] = "idle"
    /\ pc[Web] = "idle"
    /\ file_lock = NoThread
    /\ tmp.history.st = "ok"
    /\ disk.history.st = "ok"
    /\ Len(disk.history.doc) = 1
    /\ Len(tmp.history.doc) = 2
    /\ ~is_spinning
    /\ total_spins_session = 0

\* C27: a handler inside trigger_spin_flow whose load of the prizes, the
\* config or the history raises an I/O error, or whose save of the history
\* record returns False, is aborted: it emits a spin_error notice and goes to
\* end_spin without spin_started (after a failed load of the prizes or the
\* config it may also be on its way to the no-prizes abort).
C27_StoreFailureAborts ==
    [][\A t \in {Web, Api} :
          LET aborted == /\ pc'[t] = "end_spin"
                         /\ last_notice'.ev = "spin_error"
                         /\ spin_started' = spin_started
          IN /\ (pc[t] = "load_history" /\ faults' > faults) => aborted
             /\ (pc[t] \in {"load_prizes", "load_config"} /\ faults' > faults) =>
                   \/ aborted
                   \/ SelectSeq(loc'[t].prizes, IsEnabled) = <<>>
             /\ (/\ pc[t] = "save_json_file" /\ loc[t].f = "history" /\ ~loc[t].nested
                 /\ pc'[t] \notin {"save_json_file", "save_replace"}) => aborted
      ]_vars

\* C28: whoever finds the guard Spinning while a handler is inside the
\* transaction it started (and nobody holds the lock) finds the counter at
\* that spin's number, the start timestamp set and last_spin_source at that
\* handler's source.
C28_SpinningShowsItsOwnSpin ==
    \A t \in Callers :
        (is_spinning /\ wlock = NoThread /\ pc[t] \in HandlerHolds) =>
            /\ total_spins_session = loc[t].spin_number
            /\ spin_start_time = "time"
            /\ last_spin_source = loc[t].source

\* C30: a step of a thread that changes is_spinning, total_spins_session,
\* spin_start_time, last_spin_source or last_winner is taken by the holder
\* of WheelState._lock (it holds the lock before the step or takes it in the
\* step).
C30_GuardedFieldsWrittenUnderLock ==
    [][\A t \in Threads :
          (pc'[t] # pc[t] /\ wheel' # wheel) => (wlock = t \/ wlock' = t)
      ]_vars

\* C29: when a spin puts its history in place, the document becomes the
\* spin's record followed by the records that are in the document at that
\* moment (up to 100 in all): a clear-history that completed since the spin
\* loaded the history stays in effect, and no record written since is lost.
C29_AppendIsAtomic ==
    [][\A t \in Callers :
          (pc[t] = "save_replace" /\ pc'[t] = "commit") =>
             disk'.history.doc = Cap(<<spin_record(t)>> \o disk.history.doc)
      ]_vars

\* C31: from spin_started of a spin until its scheduled completion has run
\* end_spin, the guard is Spinning and the counter is at that spin's number,
\* whatever rejected requests, status queries, connects, disconnects and
\* broadcasts of an earlier spin's completion happen meanwhile.
C31_SpinningUntilOwnCompletion ==
    \A n \in spin_started :
        pc[Task(n)] \in {"background_task", "sleeping", "end_spin"} =>
            (is_spinning /\ total_spins_session = n)

\* Spin 2 waits for its completion while the completion action of spin 1 is
\* still at its broadcasts, a client is connected and a status query has been
\* answered.
C31_Witness ==
    /\ 2 \in spin_started
    /\ pc[Task(2)] = "sleeping"
    /\ spin_complete[1] = 1
    /\ pc[Task(1)] = "emit_state_update"
    /\ connected_clients # {}
    /\ pc[Observer] = "idle"
    /\ observer.seen.is_spinning
    /\ is_spinning

\* C32: while a spin waits for its completion action, WheelState._lock is
\* free or held by a thread inside add_client or remove_client, which gives
\* it back without waiting for anything; a get_status() taken then reports
\* is_spinning = true, and a start_spin attempted then is refused.
C32_LockFreeDuringWait ==
    [][(\E n \in 1..MaxSpins : InWait(n)) =>
          /\ wlock # NoThread =>
                (wlock = Observer /\ pc[Observer] \in {"add_client_metrics",
                                                       "remove_client_return"})
          /\ (pc[Observer] \in {"status_detailed", "connection_confirmed"}
                 /\ pc'[Observer] = "idle") => observer'.seen.is_spinning
          /\ \A t \in Callers :
                (pc[t] = "start_spin" /\ pc'[t] # "start_spin") => pc'[t] = "rejected"
      ]_vars

\* Spin 1 waits for its completion; a status query was answered with
\* is_spinning = true and this spin's number, and a second request has been
\* refused by start_spin.
C32_Witness ==
    /\ InWait(1)
    /\ pc[Task(1)] = "sleeping"
    /\ pc[Observer] = "idle"
    /\ observer.seen = [is_spinning |-> TRUE, total_spins |-> 1,
                             spin_duration |-> "since_start"]
    /\ pc[Web] = "rejected"
    /\ wlock = NoThread

\* C33: between a save's write of the temp file and its os.replace the saving
\* thread holds file_lock, no second thread is between its own temp write and
\* replace, and no other thread's load_json_file or save_json_file takes a
\* step.
C33_StoreOperationsSerialized ==
    [][\A t \in Threads :
          pc[t] = "save_replace" =>
             /\ file_lock = t
             /\ \A u \in Threads \ {t} :
                   /\ pc[u] # "save_replace"
                   /\ pc[u] \in LoadSites \cup {"save_json_file"} => pc'[u] = pc[u]
      ]_vars

\* One handler is between its temp write and its os.replace of prizes.json
\* while the other handler stands at its own save of prizes.json.
C33_Witness ==
    /\ pc[Admin] = "save_replace"
    /\ pc[Admin2] = "save_json_file"
    /\ loc[Admin].f = "prizes"
    /\ loc[Admin2].f = "prizes"
    /\ tmp["prizes"] # disk["prizes"]
    /\ file_lock = Admin

\* C34: every step of the program, a crash of the process included, leaves
\* each canonical file as it was or makes it the complete document a
\* save_json_file call was given, and only the os.replace of that call does
\* the latter.
C34_CanonicalIsOldOrNew ==
    [][\A f \in Files :
          \/ disk'[f] = disk[f]
          \/ \E t \in Threads :
                /\ pc[t] = "save_replace"
                /\ pc'[t] # "save_replace"
                /\ loc[t].f = f
                /\ disk'[f] = json_dump(SaveData(t))
      ]_vars

\* The process has just been started again after a crash between the temp
\* write and the os.replace of a history save: history.json.tmp holds the new
\* one-record document and history.json the previous, empty one.
C34_Witness ==
    /\ faults = 1
    /\ pc[Main] = "init_config"
    /\ disk.history = File("ok", <<>>)
    /\ tmp.history.st = "ok"
    /\ Len(tmp.history.doc) = 1

\* C35: the button callback enters trigger_spin_flow, or records a press in
\* button_last_press, only when at least BUTTON_DEBOUNCE_TIME has passed
\* since the last press it recorded, whether the wheel spins or not; a
\* press it records while is_spinning is false enters trigger_spin_flow
\* with the source hardware_button.
C35_ButtonDebounce ==
    [][/\ (pc[Gpio] = "idle" /\ pc'[Gpio] # "idle") =>
             /\ button_elapsed >= BUTTON_DEBOUNCE_TIME
             /\ pc'[Gpio] = "start_spin"
             /\ loc'[Gpio].source = "hardware_button"
       /\ (button_elapsed # 0 /\ button_elapsed' = 0) =>
             /\ button_elapsed >= BUTTON_DEBOUNCE_TIME
             /\ pc[Gpio] = "idle"
             /\ ~is_spinning => pc'[Gpio] = "start_spin"
             /\ is_spinning => pc'[Gpio] = "idle"
      ]_vars

\* A spin started by the button is in flight, the callback has returned and
\* less than BUTTON_DEBOUNCE_TIME has passed since the press.
C35_Witness ==
    /\ pc[Gpio] = "idle"
    /\ button_elapsed < BUTTON_DEBOUNCE_TIME
    /\ is_spinning
    /\ last_spin_source = "hardware_button"
    /\ \E n \in spin_started : pc[Task(n)] = "sleeping"

\* C36: the prize a spin's spin_complete carries as winner has the id that
\* the spin's spin_started carried as winner_id (the two are compared from
\* the spin_complete on, until the spin's task has ended).
C36_CompleteNamesStartedWinner ==
    \A n \in 1..MaxSpins :
        winner_sent[n].complete # "" =>
            /\ n \in spin_started
            /\ winner_sent[n].complete = winner_sent[n].started

\* Spin 1 has emitted spin_complete for prize 1, which was deleted from
\* prizes.json after the spin's spin_started.
C36_Witness ==
    /\ winner_sent[1] = [started |-> "1", complete |-> "1"]
    /\ disk.prizes.st = "ok"
    /\ \A i \in 1..Len(disk.prizes.doc) : disk.prizes.doc[i].id # "1"

\* C37: the current_state snapshot of every spin_rejected notice with reason
\* wheel_busy has is_spinning = true.
C37_RejectionSnapshotIsSpinning ==
    (last_notice.ev = "spin_rejected" /\ last_notice.reason = "wheel_busy") =>
        last_notice.is_spinning

\* The session_spin values of the records, newest first, strictly decrease.
StrictlyDecreasing(recs) ==
    \A i \in 1..(Len(recs) - 1) : recs[i].session_spin > recs[i + 1].session_spin

\* C38: total_spins_session grows by one in every start_spin call that
\* succeeds and is left as it is by every other step: a refused request,
\* an abort, end_spin, a status read, a connect or a disconnect; so an
\* aborted spin keeps the number it took.  The records history.json holds
\* of the session have strictly decreasing session_spin values, newest
\* first.
C38_CounterCountsAcceptedSpins ==
    [][/\ IF \E t \in Callers : pc[t] = "start_spin_count" /\ pc'[t] = "start_spin_time"
          THEN total_spins_session' = total_spins_session + 1
          ELSE total_spins_session' = total_spins_session
       /\ disk'.history.st = "ok" => StrictlyDecreasing(disk'.history.doc)
      ]_vars

\* Two spins were accepted and recorded with the numbers 2 and 1, newest
\* first, and a status query has read the counter as 2.
C38_Witness ==
    /\ total_spins_session = 2
    /\ disk.history.st = "ok"
    /\ Len(disk.history.doc) = 2
    /\ disk.history.doc[1].session_spin = 2
    /\ disk.history.doc[2].session_spin = 1
    /\ observer.seen.total_spins = 2
    /\ pc[Observer] = "idle"

\* C39: whenever no thread holds WheelState._lock, is_spinning is true
\* exactly if spin_start_time is set; and a get_status() snapshot with
\* is_spinning = false has spin_duration = 0.
C39_SpinningIffTimestamp ==
    /\ wlock = NoThread => (is_spinning <=> spin_start_time # "None")
    /\ pc[Observer] = "idle" =>
          (~observer.seen.is_spinning => observer.seen.spin_duration = "0")

\* After the end_spin of spin 1 a status query was answered with
\* is_spinning = false, total_spins = 1 and spin_duration = 0.
C39_Witness ==
    /\ wlock = NoThread
    /\ ~is_spinning
    /\ spin_start_time = "None"
    /\ spin_complete[1] = 1
    /\ pc[Observer] = "idle"
    /\ observer.seen = [is_spinning |-> FALSE, total_spins |-> 1, spin_duration |-> "0"]

\* C40: no thread holds WheelState._lock and file_lock together: the holder
\* of one is not the holder of the other, and the holder of
\* WheelState._lock is not at a call of load_json_file or save_json_file.
C40_LocksNeverNested ==
    \A t \in Threads :
        wlock = t =>
            /\ file_lock # t
            /\ pc[t] \notin LoadSites \cup {"save_json_file", "save_replace"}

\* Both locks are held, by different threads: a connecting client is inside
\* add_client while the spin handler is between the temp write and the
\* os.replace of its history save.
C40_Witness ==
    /\ wlock = Observer
    /\ pc[Observer] = "add_client_metrics"
    /\ file_lock = Web
    /\ pc[Web] = "save_replace"

====
